---------------------------- MODULE Spec2Model ----------------------------
(***************************************************************************)
(* Verification model of the Codex CLI provider:                           *)
(*   - integrations/codex/run.ts  (runCodexExec, ensureCodexLogin,         *)
(*     getCodexAuthStatus and their helpers; the version with auth is      *)
(*     src/unnamed/part_001)                                               *)
(*   - api/providers/codex-cli.ts (CodexCliHandler.createMessage,          *)
(*     processEvent, normalizeUsage, getCodexError, getCodexAuthEnv; the   *)
(*     current version is lines 236-530 of the file)                       *)
(*                                                                         *)
(* JavaScript values are tagged records [t |-> <typeof>, v |-> <payload>]. *)
(* A JavaScript string is a sequence of atoms (TLA+ strings), each atom a  *)
(* fixed run of characters, cut at the boundaries of the patterns the code *)
(* searches for; includes/trim/concatenation are computed on the atoms.    *)
(***************************************************************************)
EXTENDS Integers, Sequences, FiniteSets, TLC

(***************************************************************************)
(* JavaScript values                                                       *)
(***************************************************************************)
Undef == [t |-> "undefined"]
Null == [t |-> "null"]
Bool(b) == [t |-> "boolean", v |-> b]
Num(n) == [t |-> "number", v |-> n]
Str(s) == [t |-> "string", v |-> s]
Obj(f) == [t |-> "object", v |-> f]
Arr(s) == [t |-> "array", v |-> s]

\* The one-atom string.
S1(a) == Str(<<a>>)

IsString(x) == x.t = "string"
IsNumber(x) == x.t = "number"
IsBoolean(x) == x.t = "boolean"
IsObject(x) == x.t = "object"
IsArray(x) == x.t = "array"

\* x == null || x === undefined : what `??` and `?.` test.
Nullish(x) == x.t \in {"undefined", "null"}

\* ToBoolean(x).
Truthy(x) ==
    CASE x.t = "undefined" -> FALSE
      [] x.t = "null" -> FALSE
      [] x.t = "boolean" -> x.v
      [] x.t = "number" -> x.v # 0
      [] x.t = "string" -> x.v # <<>>
      [] OTHER -> TRUE

\* a ?? b
Coalesce(a, b) == IF Nullish(a) THEN b ELSE a

\* a || b
OrElse(a, b) == IF Truthy(a) THEN a ELSE b

\* o.k on a non-nullish o: a property of an object, undefined on a primitive
\* or an array (none of the keys the code reads is an own property there).
Get(o, k) == IF IsObject(o) /\ k \in DOMAIN o.v THEN o.v[k] ELSE Undef

\* o?.k
OptGet(o, k) == IF Nullish(o) THEN Undef ELSE Get(o, k)

\* o?.[0]
OptFirst(o) ==
    CASE Nullish(o) -> Undef
      [] IsArray(o) -> IF Len(o.v) > 0 THEN o.v[1] ELSE Undef
      [] IsString(o) -> IF Len(o.v) > 0 THEN S1(o.v[1]) ELSE Undef
      [] OTHER -> Undef

(***************************************************************************)
(* Strings as atom sequences                                               *)
(***************************************************************************)
WhiteSpace == {" ", "\n", "\t"}

RECURSIVE TrimStart(_)
TrimStart(s) ==
    IF s # <<>> /\ Head(s) \in WhiteSpace THEN TrimStart(Tail(s)) ELSE s

RECURSIVE TrimEnd(_)
TrimEnd(s) ==
    IF s # <<>> /\ s[Len(s)] \in WhiteSpace
    THEN TrimEnd(SubSeq(s, 1, Len(s) - 1))
    ELSE s

\* String.prototype.trim
Trim(s) == TrimEnd(TrimStart(s))

\* String.prototype.includes
Includes(s, pat) ==
    \E i \in 0..(Len(s) - Len(pat)) : SubSeq(s, i + 1, i + Len(pat)) = pat


\* String(x), as `new Error(x)` and template literals convert a value.
ToStr(x) ==
    CASE x.t = "string" -> x.v
      [] x.t = "number" -> <<ToString(x.v)>>
      [] x.t = "boolean" -> IF x.v THEN <<"true">> ELSE <<"false">>
      [] x.t = "undefined" -> <<"undefined">>
      [] x.t = "null" -> <<"null">>
      [] OTHER -> <<"[object Object]">>

(***************************************************************************)
(* codex-cli.ts: getCodexError                                             *)
(***************************************************************************)
GenericErrorText == <<"Codex CLI returned an error.">>

\* const type = typeof event.type === "string" ? event.type : ""
\* const hasErrorType = type.includes("error")
hasErrorType(event) ==
    LET type == IF IsString(Get(event, "type")) THEN Get(event, "type").v ELSE <<>>
    IN Includes(type, <<"error">>)

\* The condition of the `if` of getCodexError: the event signals an error.
isErrorEvent(event) ==
    \/ hasErrorType(event)
    \/ Get(event, "status") = S1("error")
    \/ Truthy(Get(event, "error"))

\* The value getCodexError returns: a JavaScript value, Null for `null`.
getCodexError(event) ==
    IF ~Truthy(event) THEN Null
    ELSE LET errorPayload == Coalesce(Get(event, "error"), event)
         IN IF isErrorEvent(event)
            THEN IF IsString(errorPayload) THEN errorPayload
                 ELSE IF Truthy(OptGet(errorPayload, "message"))
                      THEN OptGet(errorPayload, "message")
                 ELSE IF Truthy(Get(event, "message")) /\ IsString(Get(event, "message"))
                      THEN Get(event, "message")
                 ELSE Str(GenericErrorText)
            ELSE Null

(***************************************************************************)
(* codex-cli.ts: normalizeUsage                                            *)
(***************************************************************************)
\* x > 0 on the numbers of a usage object.
Positive(x) == IsNumber(x) /\ x.v > 0

\* a + b on numbers.
Plus(a, b) == Num(a.v + b.v)

\* calculateApiCostOpenAI is an external pure function: its application is
\* kept symbolic, the arguments it was given being what matters here.
calculateApiCostOpenAI(modelInfo, inputTokens, outputTokens, cacheWriteTokens, cacheReadTokens) ==
    [fn |-> "calculateApiCostOpenAI", info |-> modelInfo, args |-> <<inputTokens, outputTokens, cacheWriteTokens, cacheReadTokens>>]

\* An input-token resolution that prefers the sum of the details to the
\* flat total whenever one of the details is positive.
resolveInputTokensFromDetails(usage) ==
    LET inputDetails == Coalesce(Get(usage, "input_tokens_details"), Get(usage, "prompt_tokens_details"))
        cachedTokens == Coalesce(OptGet(inputDetails, "cached_tokens"), Num(0))
        cacheMissTokens == Coalesce(OptGet(inputDetails, "cache_miss_tokens"), Num(0))
        flat == Coalesce(Get(usage, "input_tokens"), Coalesce(Get(usage, "prompt_tokens"), Num(0)))
    IN IF Positive(cachedTokens) \/ Positive(cacheMissTokens)
       THEN Plus(cachedTokens, cacheMissTokens)
       ELSE flat

\* The input-token resolution of normalizeUsage (lines 397-404).
resolveInputTokens(usage) ==
    LET inputDetails == Coalesce(Get(usage, "input_tokens_details"), Get(usage, "prompt_tokens_details"))
        cachedTokens == Coalesce(OptGet(inputDetails, "cached_tokens"), Num(0))
        cacheMissTokens == Coalesce(OptGet(inputDetails, "cache_miss_tokens"), Num(0))
        flat == Coalesce(Get(usage, "input_tokens"), Coalesce(Get(usage, "prompt_tokens"), Num(0)))
    IN IF flat = Num(0) /\ (Positive(cachedTokens) \/ Positive(cacheMissTokens))
       THEN Plus(cachedTokens, cacheMissTokens)
       ELSE flat

\* normalizeUsage: the usage chunk, or Undef when there is no usage object.
normalizeUsage(usage, modelInfo) ==
    IF ~Truthy(usage) THEN Undef
    ELSE LET inputDetails == Coalesce(Get(usage, "input_tokens_details"), Get(usage, "prompt_tokens_details"))
             cachedTokens == Coalesce(OptGet(inputDetails, "cached_tokens"), Num(0))
             inputTokens == resolveInputTokens(usage)
             outputTokens == Coalesce(Get(usage, "output_tokens"), Coalesce(Get(usage, "completion_tokens"), Num(0)))
             cacheWriteTokens == Coalesce(Get(usage, "cache_creation_input_tokens"), Coalesce(Get(usage, "cache_write_tokens"), Num(0)))
             cacheReadTokens == Coalesce(Get(usage, "cache_read_input_tokens"), Coalesce(Get(usage, "cache_read_tokens"), Coalesce(Get(usage, "cached_tokens"), Coalesce(cachedTokens, Num(0)))))
             rt == OptGet(Get(usage, "output_tokens_details"), "reasoning_tokens")
         IN [type |-> "usage",
             inputTokens |-> inputTokens,
             outputTokens |-> outputTokens,
             cacheWriteTokens |-> OrElse(cacheWriteTokens, Undef),
             cacheReadTokens |-> OrElse(cacheReadTokens, Undef),
             reasoningTokens |-> IF IsNumber(rt) THEN rt ELSE Undef,
             totalCost |-> calculateApiCostOpenAI(modelInfo, inputTokens, outputTokens, cacheWriteTokens, cacheReadTokens)]

\* usageChunks, were the top-level usage preferred to the one of `response`.
usageChunksTopLevelFirst(event, modelInfo) ==
    LET usageData == normalizeUsage(OrElse(OptGet(event, "usage"), OptGet(OptGet(event, "response"), "usage")), modelInfo)
    IN IF usageData = Undef THEN <<>> ELSE <<usageData>>

\* A yielded usage chunk, or nothing: `if (usageData) yield usageData`.
usageChunks(event, modelInfo) ==
    LET usageData == normalizeUsage(OrElse(OptGet(OptGet(event, "response"), "usage"), OptGet(event, "usage")), modelInfo)
    IN IF usageData = Undef THEN <<>> ELSE <<usageData>>

(***************************************************************************)
(* codex-cli.ts: processEvent, the sequence of chunks one event yields     *)
(***************************************************************************)
TextDeltaTypes == {S1("response.text.delta"), S1("response.output_text.delta")}

ReasoningDeltaTypes == {S1("response.reasoning.delta"), S1("response.reasoning_text.delta"), S1("response.reasoning_summary.delta"), S1("response.reasoning_summary_text.delta")}

ToolCallDeltaTypes == {S1("response.tool_call_arguments.delta"), S1("response.function_call_arguments.delta")}

OutputItemTypes == {S1("response.output_item.added"), S1("response.output_item.done")}

CompletedTypes == {S1("response.done"), S1("response.completed")}

TextChunk(text) == [type |-> "text", text |-> text]

ReasoningChunk(text) == [type |-> "reasoning", text |-> text]

\* The chunks of the blocks of a "message" item's content array, in order.
RECURSIVE messageContentChunks(_)
messageContentChunks(content) ==
    IF content = <<>> THEN <<>>
    ELSE LET c == Head(content)
             hit == /\ OptGet(c, "type") \in {S1("text"), S1("output_text")}
                    /\ Truthy(OptGet(c, "text"))
         IN (IF hit THEN <<TextChunk(OptGet(c, "text"))>> ELSE <<>>) \o messageContentChunks(Tail(content))

\* The output_item.added / output_item.done rule (lines 337-353).
outputItemChunks(event) ==
    LET item == OptGet(event, "item")
    IN IF ~Truthy(item) THEN <<>>
       ELSE IF Get(item, "type") = S1("text") /\ Truthy(Get(item, "text"))
            THEN <<TextChunk(Get(item, "text"))>>
       ELSE IF Get(item, "type") = S1("reasoning") /\ Truthy(Get(item, "text"))
            THEN <<ReasoningChunk(Get(item, "text"))>>
       ELSE IF Get(item, "type") = S1("message") /\ IsArray(Get(item, "content"))
            THEN messageContentChunks(Get(item, "content").v)
       ELSE <<>>

\* toolCallChunk, were the last of the alternative fields preferred.
toolCallChunkLastFirst(event) ==
    [type |-> "tool_call_partial",
     index |-> Coalesce(Get(event, "index"), Num(0)),
     id |-> OrElse(OrElse(Get(event, "id"), Get(event, "tool_call_id")), Get(event, "call_id")),
     name |-> OrElse(Get(event, "function_name"), Get(event, "name")),
     arguments |-> OrElse(Get(event, "arguments"), Get(event, "delta"))]

\* The tool-call-argument delta rule (lines 319-335).
toolCallChunk(event) ==
    [type |-> "tool_call_partial",
     index |-> Coalesce(Get(event, "index"), Num(0)),
     id |-> OrElse(OrElse(Get(event, "call_id"), Get(event, "tool_call_id")), Get(event, "id")),
     name |-> OrElse(Get(event, "name"), Get(event, "function_name")),
     arguments |-> OrElse(Get(event, "delta"), Get(event, "arguments"))]

\* The rules after the typed dialects (lines 363-389).
fallbackChunks(event, modelInfo) ==
    LET choice == OptGet(OptGet(OptFirst(OptGet(event, "choices")), "delta"), "content")
        item == OptGet(event, "item")
        content == OptGet(OptGet(event, "message"), "content")
        text == OptGet(event, "text")
    IN IF Truthy(choice) THEN <<TextChunk(choice)>>
       ELSE IF Truthy(item) /\ IsString(Get(item, "text")) /\ Len(Get(item, "text").v) > 0
            THEN <<TextChunk(Get(item, "text"))>>
       ELSE IF Truthy(content) /\ IsString(content) /\ Len(content.v) > 0
            THEN <<TextChunk(content)>>
       ELSE IF Truthy(text) /\ IsString(text)
            THEN <<TextChunk(text)>>
       ELSE usageChunks(event, modelInfo)

\* processEvent, were an event of a typed dialect whose rule yields nothing
\* handed on to the rules after the typed dialects.
processEventFallingThrough(event, modelInfo) ==
    LET type == OptGet(event, "type")
        typed == IF type \in TextDeltaTypes
                 THEN IF Truthy(OptGet(event, "delta")) THEN <<TextChunk(OptGet(event, "delta"))>> ELSE <<>>
                 ELSE IF type \in ReasoningDeltaTypes
                 THEN IF Truthy(OptGet(event, "delta")) THEN <<ReasoningChunk(OptGet(event, "delta"))>> ELSE <<>>
                 ELSE IF type \in ToolCallDeltaTypes
                 THEN <<toolCallChunk(event)>>
                 ELSE IF type \in OutputItemTypes
                 THEN outputItemChunks(event)
                 ELSE IF type \in CompletedTypes
                 THEN usageChunks(event, modelInfo)
                 ELSE <<>>
    IN IF typed # <<>> THEN typed ELSE fallbackChunks(event, modelInfo)

processEvent(event, modelInfo) ==
    LET type == OptGet(event, "type")
    IN IF type \in TextDeltaTypes
       THEN IF Truthy(OptGet(event, "delta")) THEN <<TextChunk(OptGet(event, "delta"))>> ELSE <<>>
       ELSE IF type \in ReasoningDeltaTypes
       THEN IF Truthy(OptGet(event, "delta")) THEN <<ReasoningChunk(OptGet(event, "delta"))>> ELSE <<>>
       ELSE IF type \in ToolCallDeltaTypes
       THEN <<toolCallChunk(event)>>
       ELSE IF type \in OutputItemTypes
       THEN outputItemChunks(event)
       ELSE IF type \in CompletedTypes
       THEN usageChunks(event, modelInfo)
       ELSE fallbackChunks(event, modelInfo)

(***************************************************************************)
(* Text that is parsed as JSON (a stdout line, the output of `auth         *)
(* status`): a sequence of tokens, each white space, a run of characters   *)
(* that is no JSON ("junk"), or the text of one JSON value.                *)
(***************************************************************************)
Ws == [k |-> "ws"]
Junk == [k |-> "junk"]
Json(v) == [k |-> "json", v |-> v]

RECURSIVE TrimTextStart(_)
TrimTextStart(s) ==
    IF s # <<>> /\ Head(s).k = "ws" THEN TrimTextStart(Tail(s)) ELSE s

RECURSIVE TrimTextEnd(_)
TrimTextEnd(s) ==
    IF s # <<>> /\ s[Len(s)].k = "ws"
    THEN TrimTextEnd(SubSeq(s, 1, Len(s) - 1))
    ELSE s

\* String.prototype.trim on such a text.
TrimText(s) == TrimTextEnd(TrimTextStart(s))

\* JSON.parse: [ok |-> TRUE, value |-> v] when the text is one JSON value
\* with optional white space around it, [ok |-> FALSE] (a SyntaxError) else.
JsonParse(s) ==
    LET body == TrimText(s)
    IN IF Len(body) = 1 /\ body[1].k = "json"
       THEN [ok |-> TRUE, value |-> body[1].v]
       ELSE [ok |-> FALSE]

(***************************************************************************)
(* run.ts: helpers                                                         *)
(***************************************************************************)
CODEX_CLI_INSTALLATION_URL == "https://github.com/openai/codex"

\* options.path || "codex"
codexPathOf(path) == OrElse(path, S1("codex"))

\* new Error(message)
NewError(message) == Obj([name |-> S1("Error"), message |-> Str(message)])

createCodexCliNotFoundError(codexPath, originalError) ==
    Obj([name |-> S1("CodexCliNotFoundError"),
         message |-> Str(<<"Codex CLI not found at '">> \o ToStr(codexPath) \o <<"'. Install it from ", CODEX_CLI_INSTALLATION_URL, ". Original error: ">> \o ToStr(Get(originalError, "message")))])

\* error.code === "ENOENT" || error.message?.includes("ENOENT")
isENOENT(error) ==
    \/ Get(error, "code") = S1("ENOENT")
    \/ (IsString(Get(error, "message")) /\ Includes(Get(error, "message").v, <<"ENOENT">>))

\* A parse that hands back a text it cannot parse as it is.
attemptParseEventLenient(data) ==
    IF JsonParse(data).ok THEN JsonParse(data).value ELSE S1("unparsed")

\* attemptParseEvent: the parsed value, Null when JSON.parse throws.
attemptParseEvent(data) ==
    IF JsonParse(data).ok THEN JsonParse(data).value ELSE Null

\* The exit error of lines 90-95.
ExitError(exitCode, errorOutput) ==
    NewError(<<"Codex CLI process exited with code ", ToString(exitCode), ".">> \o (IF errorOutput # <<>> THEN <<" Error output: ">> \o errorOutput ELSE <<>>))

\* s?.trim() as a value: undefined stays undefined.
OptTrim(x) == IF IsString(x) THEN Str(Trim(x.v)) ELSE Undef

formatCodexCliError(error) ==
    IF IsString(error) THEN error.v
    ELSE IF Truthy(error) /\ (IsObject(error) \/ IsArray(error))
    THEN LET cause == Get(error, "cause")
         IN OrElse(OrElse(OrElse(OrElse(OptTrim(Get(error, "stderr")), OptTrim(Get(error, "shortMessage"))), OptTrim(Get(error, "message"))), IF IsString(cause) THEN cause ELSE Str(<<>>)), Str(<<>>)).v
    ELSE <<>>

\* String.prototype.toLowerCase, atom by atom.
LowerAtom(a) ==
    CASE a = "Unknown command" -> "unknown command"
      [] a = "UNKNOWN SUBCOMMAND" -> "unknown subcommand"
      [] a = "Unrecognized Command" -> "unrecognized command"
      [] a = "Invalid choice" -> "invalid choice"
      [] a = "Auth" -> "auth"
      [] a = "UnAuth" -> "unauth"
      [] a = "Un" -> "un"
      [] a = "Signed-In" -> "signed-in"
      [] a = "Signed-Out" -> "signed-out"
      [] OTHER -> a

ToLowerCase(s) == [i \in 1..Len(s) |-> LowerAtom(s[i])]

\* A test that compares the message as it came, not lowercased.
isUnsupportedAuthCommandAsWritten(message) ==
    \/ Includes(message, <<"unknown command">>)
    \/ Includes(message, <<"unrecognized command">>)
    \/ Includes(message, <<"unknown subcommand">>)
    \/ Includes(message, <<"invalid choice">>)

isUnsupportedAuthCommand(message) ==
    LET normalized == ToLowerCase(message)
    IN \/ Includes(normalized, <<"unknown command">>)
       \/ Includes(normalized, <<"unrecognized command">>)
       \/ Includes(normalized, <<"unknown subcommand">>)
       \/ Includes(normalized, <<"invalid choice">>)

\* The inherited environment, process.env.
ProcessEnv == [PATH |-> S1("/usr/bin"), OPENAI_API_KEY |-> S1("sk-inherited")]

\* A merge in which the inherited variables win: { ...env, ...process.env }
mergeEnvInheritedLast(env) ==
    IF IsObject(env)
    THEN [k \in (DOMAIN ProcessEnv) \cup (DOMAIN env.v) |-> IF k \in DOMAIN ProcessEnv THEN ProcessEnv[k] ELSE env.v[k]]
    ELSE ProcessEnv

\* { ...process.env, ...env }
mergeEnv(env) ==
    IF IsObject(env)
    THEN [k \in (DOMAIN ProcessEnv) \cup (DOMAIN env.v) |-> IF k \in DOMAIN env.v THEN env.v[k] ELSE ProcessEnv[k]]
    ELSE ProcessEnv

\* A login that runs in the inherited environment alone.
spawnEnvLoginInherited(cmd, env) == IF cmd = "login" THEN ProcessEnv ELSE mergeEnv(env)

\* The `env` option of each execa call, for the env its caller supplied:
\* `auth status` (lines 116, 121), the fallback probe (line 136, given the
\* merged env of line 116), `login` (line 156) and the main exec (line 222).
spawnEnv(cmd, env) == mergeEnv(env)

\* "unauth" is the atoms "un", "auth"; a status saying it carries both.
parseAuthStatus(output) ==
    LET trimmed == TrimText(output)
        parsed == JsonParse(trimmed)
    IN IF trimmed = <<>> THEN [authenticated |-> Undef, raw |-> Undef]
       ELSE IF ~parsed.ok THEN [authenticated |-> Undef, raw |-> Undef]
       ELSE LET v == parsed.value
                authValue == Coalesce(Get(v, "authenticated"), Coalesce(Get(v, "logged_in"), Get(v, "loggedIn")))
                statusValue == Get(v, "status")
                normalized == IF IsString(statusValue) THEN ToLowerCase(statusValue.v) ELSE <<>>
            IN IF Truthy(v) /\ (IsObject(v) \/ IsArray(v))
               THEN IF IsBoolean(authValue) THEN [authenticated |-> authValue, raw |-> v]
                    ELSE IF IsString(statusValue) /\ (Includes(normalized, <<"un", "auth">>) \/ Includes(normalized, <<"signed-out">>))
                    THEN [authenticated |-> Bool(FALSE), raw |-> v]
                    ELSE IF IsString(statusValue) /\ (Includes(normalized, <<"auth">>) \/ Includes(normalized, <<"signed-in">>))
                    THEN [authenticated |-> Bool(TRUE), raw |-> v]
                    ELSE [authenticated |-> Undef, raw |-> v]
               ELSE [authenticated |-> Undef, raw |-> v]

\* An argument list built from the options as they were given.
runProcessArgsUntrimmed(modelId, outputSchema, sandbox, fullAuto) ==
    <<S1("exec"), S1("--json")>>
       \o (IF Truthy(OptTrim(modelId)) THEN <<S1("--model"), OptTrim(modelId)>> ELSE <<>>)
       \o (IF Truthy(outputSchema) THEN <<S1("--output-schema"), outputSchema>> ELSE <<>>)
       \o (IF Truthy(sandbox) THEN <<S1("--sandbox"), sandbox>> ELSE <<>>)
       \o (IF Truthy(fullAuto) THEN <<S1("--full-auto")>> ELSE <<>>)

\* The argument list runProcess builds (lines 196-215).
runProcessArgs(modelId, outputSchema, sandbox, fullAuto) ==
    LET resolvedModelId == OptTrim(modelId)
        resolvedOutputSchema == OptTrim(outputSchema)
        resolvedSandbox == OptTrim(sandbox)
    IN <<S1("exec"), S1("--json")>>
       \o (IF Truthy(resolvedModelId) THEN <<S1("--model"), resolvedModelId>> ELSE <<>>)
       \o (IF Truthy(resolvedOutputSchema) THEN <<S1("--output-schema"), resolvedOutputSchema>> ELSE <<>>)
       \o (IF Truthy(resolvedSandbox) THEN <<S1("--sandbox"), resolvedSandbox>> ELSE <<>>)
       \o (IF Truthy(fullAuto) THEN <<S1("--full-auto")>> ELSE <<>>)

(***************************************************************************)
(* codex-cli.ts: getCodexAuthEnv, getModel                                 *)
(***************************************************************************)
\* An override that hands the configured key on in every mode.
getCodexAuthEnvAnyMode(authMode, apiKey) ==
    IF ~Truthy(apiKey) THEN Undef ELSE Obj([OPENAI_API_KEY |-> apiKey])

getCodexAuthEnv(authMode, apiKey) ==
    IF authMode # S1("api-key") \/ ~Truthy(apiKey)
    THEN Undef
    ELSE Obj([OPENAI_API_KEY |-> apiKey])

codexCliDefaultModelId == S1("gpt-5.1-codex-max")

codexCliModels == {S1("gpt-5.1-codex-max"), S1("gpt-5.1-codex"), S1("gpt-5.1-codex-mini")}

\* The registry entry of a model id: its descriptor is named by the id.
modelInfoOf(id) == [model |-> id]

\* Names codexCliModels, an object literal, inherits from Object.prototype.
ObjectPrototypeMembers == {S1("constructor"), S1("toString"), S1("valueOf"), S1("hasOwnProperty"), S1("__proto__")}

\* codexCliModels[id]: the entry of the id, the inherited member of that
\* name, or undefined.
codexCliModelsAt(id) ==
    IF id \in codexCliModels THEN modelInfoOf(id)
    ELSE IF id \in ObjectPrototypeMembers THEN [inherited |-> id]
    ELSE Undef

getModel(apiModelId) ==
    LET modelId == OptTrim(apiModelId)
        resolvedId == IF Truthy(modelId) /\ Len(modelId.v) > 0 THEN modelId ELSE codexCliDefaultModelId
    IN [id |-> resolvedId,
        info |-> IF codexCliModelsAt(resolvedId) # Undef THEN codexCliModelsAt(resolvedId) ELSE codexCliModelsAt(codexCliDefaultModelId)]

(***************************************************************************)
(* message-filter.ts and codex-cli.ts: the prompt payload                  *)
(***************************************************************************)
\* "k" in o
HasKey(o, k) == IsObject(o) /\ k \in DOMAIN o.v

\* The placeholder of an image block (message-filter.ts lines 16-23).
imagePlaceholder(block) ==
    LET source == Get(block, "source")
        sourceType == OrElse(OptGet(source, "type"), S1("unknown"))
        mediaType == IF Truthy(source) /\ HasKey(source, "media_type") THEN Get(source, "media_type") ELSE S1("unknown")
    IN Obj([type |-> S1("text"), text |-> Str(<<"[Image (">> \o ToStr(sourceType) \o <<"): ">> \o ToStr(mediaType) \o <<" not supported by Codex CLI]">>)])

filterBlock(block) ==
    IF Get(block, "type") = S1("image") THEN imagePlaceholder(block) ELSE block

filterMessage(message) ==
    LET content == Get(message, "content")
    IN IF IsString(content) THEN message
       ELSE Obj([k \in DOMAIN message.v |-> IF k = "content" THEN Arr([i \in 1..Len(content.v) |-> filterBlock(content.v[i])]) ELSE message.v[k]])

filterMessagesForCodexCli(messages) ==
    [i \in 1..Len(messages) |-> filterMessage(messages[i])]

\* The blocks convertContent keeps: `null` results are filtered out.
IsKept(x) == Truthy(x)

\* A conversion that keeps every nested block as it is.
convertResultBlockAsIs(resultBlock) == resultBlock

\* A nested block of a tool result: text is kept, anything else is null.
convertResultBlock(resultBlock) ==
    IF Get(resultBlock, "type") = S1("text")
    THEN Obj([type |-> S1("text"), text |-> Get(resultBlock, "text")])
    ELSE Null

convertBlock(block) ==
    LET type == Get(block, "type")
        toolResultContent == Get(block, "content")
        nested == IF IsArray(toolResultContent) THEN toolResultContent.v ELSE <<>>
    IN IF type = S1("text")
       THEN Obj([type |-> S1("text"), text |-> Get(block, "text")])
       ELSE IF type = S1("tool_use")
       THEN Obj([type |-> S1("tool_use"), id |-> Get(block, "id"), name |-> Get(block, "name"), input |-> Get(block, "input")])
       ELSE IF type = S1("tool_result")
       THEN Obj([type |-> S1("tool_result"),
                 tool_use_id |-> Get(block, "tool_use_id"),
                 content |-> IF IsString(toolResultContent) THEN toolResultContent
                             ELSE Arr(SelectSeq([i \in 1..Len(nested) |-> convertResultBlock(nested[i])], IsKept))])
       ELSE Null

convertContent(content) ==
    IF IsString(content) THEN content
    ELSE Arr(SelectSeq([i \in 1..Len(content.v) |-> convertBlock(content.v[i])], IsKept))

buildCodexPrompt(systemPrompt, messages) ==
    LET filteredMessages == filterMessagesForCodexCli(messages)
        trimmedSystemPrompt == OptTrim(systemPrompt)
    IN Obj([systemPrompt |-> IF Truthy(trimmedSystemPrompt) /\ Len(trimmedSystemPrompt.v) > 0 THEN trimmedSystemPrompt ELSE Undef,
            messages |-> Arr([i \in 1..Len(filteredMessages) |-> Obj([role |-> Get(filteredMessages[i], "role"), content |-> convertContent(Get(filteredMessages[i], "content"))])])])

(***************************************************************************)
(* Bounds and the inputs the environment draws from                        *)
(***************************************************************************)
\* The stdout lines the subprocess may write in one run.
MaxLines == 2

\* The chunks of stderr output the subprocess may write in one run.
MaxStderr == 1

\* The options of a handler (ApiHandlerOptions) with the given Codex CLI
\* path, auth mode and API key; the model is the one of the tests.
HandlerOptions(path, authMode, apiKey) ==
    [codexCliPath |-> path, codexCliAuthMode |-> authMode, codexCliApiKey |-> apiKey, apiModelId |-> S1("gpt-5.1-codex"), codexCliOutputSchema |-> Undef, codexCliSandbox |-> Undef, codexCliFullAuto |-> Undef]

\* The configurations a run starts from: the auth mode unset, ChatGPT (with
\* a stored key), API key with a key, and API key with an empty key.
HandlerConfigs == {HandlerOptions(Undef, Undef, Undef), HandlerOptions(S1("/opt/codex"), S1("chatgpt"), S1("sk-test-123")), HandlerOptions(Undef, S1("api-key"), S1("sk-test-123")), HandlerOptions(S1("/opt/codex"), S1("api-key"), Str(<<>>))}

\* Events of the Codex CLI protocol used as stdout lines.
EvError == Obj([type |-> Str(<<"response.", "error">>), error |-> Obj([message |-> S1("Bad request")])])

EvMessageItem == Obj([type |-> S1("response.output_item.done"), item |-> Obj([type |-> S1("message"), content |-> Arr(<<Obj([type |-> S1("output_text"), text |-> S1("a")]), Obj([type |-> S1("text"), text |-> S1("b")])>>)])])

\* The lines a run may read: blank, not JSON, an event that yields two
\* chunks (with white space around it) and an error event.
StdoutLines == {<<Ws>>, <<Junk, Ws>>, <<Ws, Json(EvMessageItem), Ws>>, <<Json(EvError)>>}

StderrChunks == {<<" ", "boom", "\n">>}

\* What a failing spawn reports: ENOENT by code and message, by message
\* alone, and another failure.
SpawnErrors == {Obj([name |-> S1("Error"), code |-> S1("ENOENT"), message |-> Str(<<"spawn codex ", "ENOENT">>)]), Obj([name |-> S1("Error"), message |-> Str(<<"ENOENT", ": no such file or directory">>)]), Obj([name |-> S1("Error"), code |-> S1("EACCES"), message |-> Str(<<"spawn codex ", "EACCES">>)])}

\* What the 'error' event of a running subprocess reports.
RuntimeErrors == {Obj([name |-> S1("Error"), code |-> S1("EPERM"), message |-> Str(<<"kill ", "EPERM">>)])}

\* How a started subprocess ends: an exit code, or null when a signal ended it.
ExitStatuses == {Num(0), Num(1), Null}

\* stdout of a successful `codex auth status --json`.
StatusOutputs == {<<>>, <<Junk>>, <<Json(Obj([authenticated |-> Bool(TRUE)]))>>, <<Json(Obj([logged_in |-> Bool(FALSE)])), Ws>>, <<Json(Obj([status |-> Str(<<"Un", "Auth", "enticated">>)]))>>, <<Json(Obj([status |-> S1("Signed-In")]))>>}

\* What a failed execa call of an auth subcommand rejects with.
ExecaFailures == {Obj([stderr |-> Str(<<"error: ", "Unknown command", ": auth", "\n">>)]), Obj([stderr |-> Str(<<>>), shortMessage |-> S1("Command failed with exit code 1: codex")]), Obj([stderr |-> Str(<<" ">>)])}

(***************************************************************************)
(* State                                                                   *)
(***************************************************************************)
VARIABLES
    options,        \* this.options of the CodexCliHandler
    hpc,            \* where createMessage stands
    hOutcome,       \* how createMessage ended, [k |-> "running"] before
    chunks,         \* the chunks createMessage has yielded to its caller
    pending,        \* the chunks of the current event not yet yielded
    authStatus,     \* the CodexAuthStatus ensureCodexLogin obtained
    calls,          \* the execa invocations made, in order
    gpc,            \* where the runCodexExec generator stands
    gOutcome,       \* how runCodexExec ended
    gEvent,         \* the event runCodexExec is suspended on (at its yield)
    yielded,        \* the events runCodexExec has yielded
    processState,   \* ProcessState of runCodexExec: error, stderrLogs, exitCode
    rl,             \* the readline interface: closed, and the lines it buffers
    proc,           \* the exec subprocess
    loopEndError,   \* processState.error as read when the for-await loop was left
    loginError,     \* what `codex login` failed with, Undef while it has not
    other,          \* the state of a second invocation of createMessage, suspended
    fnCall,         \* a function of the modules called on its own: its name and arguments
    fnReturn        \* what that call returned, NotReturned before

vars == <<options, other, fnCall, fnReturn, hpc, hOutcome, chunks, pending, authStatus, calls, gpc, gOutcome, gEvent, yielded, processState, rl, proc, loopEndError, loginError>>

hVars == <<hpc, hOutcome, chunks, pending>>

gVars == <<gpc, gOutcome, gEvent, yielded, loopEndError>>

Running == [k |-> "running"]
Returned == [k |-> "returned"]
Raised(e) == [k |-> "raised", error |-> e]

NoStatus == [authenticated |-> FALSE, source |-> "none"]

\* No subprocess: `state` is "none" before the spawn and when runProcess
\* threw, "failed" when the spawn failed, then "running" and "exited";
\* spawnError is what a failing spawn reported. Of its stdin: stdinDone
\* says the setImmediate callback has run, stdinWritten is what the
\* subprocess was given to read, stdinEnded whether stdin.end() was
\* called, and stdinError how the write failed ("none", "write" for an
\* error handed to the callback, "type" for a throw of write itself).
NoProc == [state |-> "none", exit |-> Undef, killed |-> FALSE, stdoutOpen |-> FALSE, closeFired |-> FALSE, errorFired |-> FALSE, spawnError |-> Undef, stdinDone |-> FALSE, stdinWritten |-> <<>>, stdinEnded |-> FALSE, stdinError |-> "none", nLines |-> 0, nStderr |-> 0]

NoRl == [closed |-> FALSE, queue |-> <<>>]

NoProcessState == [error |-> Null, stderrLogs |-> <<>>, exitCode |-> Null]

\* No function is called on its own.
NoCall == [fn |-> "none"]

NotReturned == [k |-> "pending"]

\* An invocation of createMessage that has not run a step yet.
NotStarted ==
    [hpc |-> "init", hOutcome |-> Running, chunks |-> <<>>, pending |-> <<>>, authStatus |-> NoStatus, calls |-> <<>>, gpc |-> "none", gOutcome |-> Running, gEvent |-> Undef, yielded |-> <<>>, processState |-> NoProcessState, rl |-> NoRl, proc |-> NoProc, loopEndError |-> Undef, loginError |-> Undef]

Init ==
    /\ options \in HandlerConfigs
    /\ hpc = "init"
    /\ hOutcome = Running
    /\ chunks = <<>>
    /\ pending = <<>>
    /\ authStatus = NoStatus
    /\ calls = <<>>
    /\ gpc = "none"
    /\ gOutcome = Running
    /\ gEvent = Undef
    /\ yielded = <<>>
    /\ processState = NoProcessState
    /\ rl = NoRl
    /\ proc = NoProc
    /\ loopEndError = Undef
    /\ loginError = Undef
    /\ other = NotStarted
    /\ fnCall = NoCall
    /\ fnReturn = NotReturned

(***************************************************************************)
(* createMessage up to the exec run: lines 263-270 of codex-cli.ts, and    *)
(* ensureCodexLogin / getCodexAuthStatus of run.ts                         *)
(***************************************************************************)
\* The conversation of the invocation.
SystemPrompt == Str(<<"You are a helpful assistant.", "\n">>)

Messages == <<Obj([role |-> S1("user"), content |-> S1("Hello")]), Obj([role |-> S1("assistant"), content |-> S1("Hi there")])>>

\* const authMode = this.options.codexCliAuthMode ?? "chatgpt"
authModeOf(opts) == Coalesce(opts.codexCliAuthMode, S1("chatgpt"))

\* const env = getCodexAuthEnv(authMode, this.options.codexCliApiKey)
envOf(opts) == getCodexAuthEnv(authModeOf(opts), opts.codexCliApiKey)

\* A test of the configured mode that forgets the default.
needsLoginExplicit(opts) == opts.codexCliAuthMode = S1("chatgpt")

\* if (authMode === "chatgpt") await ensureCodexLogin(...)
needsLogin(opts) == authModeOf(opts) = S1("chatgpt")

\* How an execa invocation ended: not yet, with the stdout it resolved
\* with, or with the error it rejected with.
Pending == [k |-> "pending", stdout |-> <<>>, error |-> Undef]

Resolved(stdout) == [k |-> "ok", stdout |-> stdout, error |-> Undef]

Rejected(error) == [k |-> "failed", stdout |-> <<>>, error |-> error]

\* The invocations with the outcome of the last one recorded.
Settle(cs, result) == [cs EXCEPT ![Len(cs)].result = result]

\* The execa invocations: the file run, its arguments, its environment,
\* what it is given on standard input, and how it ended.
StatusCall(opts) == [cmd |-> "status", file |-> codexPathOf(opts.codexCliPath), args |-> <<S1("auth"), S1("status"), S1("--json")>>, env |-> spawnEnv("status", envOf(opts)), input |-> Undef, result |-> Pending]

FallbackCall(opts) == [cmd |-> "fallback", file |-> codexPathOf(opts.codexCliPath), args |-> <<S1("exec"), S1("--json")>>, env |-> spawnEnv("fallback", envOf(opts)), input |-> S1("ping"), result |-> Pending]

LoginCall(opts) == [cmd |-> "login", file |-> codexPathOf(opts.codexCliPath), args |-> <<S1("login")>>, env |-> spawnEnv("login", envOf(opts)), input |-> Undef, result |-> Pending]

ExecCall(opts) == [cmd |-> "exec", file |-> codexPathOf(opts.codexCliPath), args |-> runProcessArgs(getModel(opts.apiModelId).id, opts.codexCliOutputSchema, opts.codexCliSandbox, opts.codexCliFullAuto), env |-> spawnEnv("exec", envOf(opts)), input |-> buildCodexPrompt(SystemPrompt, Messages), result |-> Pending]

\* A login error that drops the captured output.
LoginFailedErrorBare(error) == NewError(<<"Codex CLI login failed.">>)

\* The error ensureCodexLogin throws when `codex login` fails (lines 161-164).
LoginFailedError(error) ==
    LET errorOutput == formatCodexCliError(error)
    IN NewError(<<"Codex CLI login failed.">> \o (IF errorOutput # <<>> THEN <<" Error output: ">> \o errorOutput ELSE <<>>))

\* A status that takes an output without a signal as unauthenticated.
statusFromOutputStrict(stdout) ==
    [authenticated |-> parseAuthStatus(stdout).authenticated = Bool(TRUE), source |-> "auth-status", error |-> Undef]

\* The status of a successful `auth status` call (lines 126-131).
statusFromOutput(stdout) ==
    LET parsed == parseAuthStatus(stdout)
    IN [authenticated |-> IF IsBoolean(parsed.authenticated) THEN parsed.authenticated.v ELSE TRUE,
        source |-> "auth-status",
        error |-> Undef]

\* A status of a failed call that attaches the error output as it is, empty
\* or not.
statusFromFailureAsIs(error) ==
    [authenticated |-> FALSE, source |-> "auth-status", error |-> Str(formatCodexCliError(error))]

\* The status of a failed `auth status` call that is not an unsupported
\* subcommand (lines 138-142).
statusFromFailure(error) ==
    [authenticated |-> FALSE,
     source |-> "auth-status",
     error |-> OrElse(Str(formatCodexCliError(error)), S1("Codex CLI auth status check failed."))]

\* A fallback probe that labels its status as the status call does.
statusFromExecMislabelled(ok, error) ==
    IF ok THEN [authenticated |-> TRUE, source |-> "auth-status", error |-> Undef]
    ELSE [authenticated |-> FALSE, source |-> "auth-status", error |-> OrElse(Str(formatCodexCliError(error)), S1("Codex CLI auth check failed."))]

\* The status the fallback probe reports (lines 174-190).
statusFromExec(ok, error) ==
    IF ok THEN [authenticated |-> TRUE, source |-> "exec", error |-> Undef]
    ELSE [authenticated |-> FALSE, source |-> "exec", error |-> OrElse(Str(formatCodexCliError(error)), S1("Codex CLI auth check failed."))]

\* The first pull of the caller starts createMessage: it resolves the model,
\* builds the prompt and the environment and, in ChatGPT mode, starts
\* ensureCodexLogin, whose first step runs `auth status`.
HStart ==
    /\ hpc = "init"
    /\ IF needsLogin(options)
       THEN /\ hpc' = "status"
            /\ calls' = Append(calls, StatusCall(options))
            /\ gpc' = gpc
       ELSE /\ hpc' = "exec"
            /\ gpc' = "start"
            /\ calls' = calls
    /\ UNCHANGED <<options, other, fnCall, fnReturn, hOutcome, chunks, pending, authStatus, gOutcome, gEvent, yielded, processState, rl, proc, loopEndError, loginError>>

\* An ensureCodexLogin that runs `codex login` whatever the status says.
AfterStatusAlwaysLogin(st, result) ==
    /\ authStatus' = st
    /\ hpc' = "login"
    /\ gpc' = gpc
    /\ calls' = Append(Settle(calls, result), LoginCall(options))

\* ensureCodexLogin once the status is known (lines 150-160), the probing
\* invocation having ended with `result`: return when authenticated, else
\* run `codex login`.
AfterStatus(st, result) ==
    /\ authStatus' = st
    /\ IF st.authenticated
       THEN /\ hpc' = "exec"
            /\ gpc' = "start"
            /\ calls' = Settle(calls, result)
       ELSE /\ hpc' = "login"
            /\ gpc' = gpc
            /\ calls' = Append(Settle(calls, result), LoginCall(options))

\* getCodexAuthStatus: the `auth status` call settles, resolving with one
\* of `outputs` or rejecting with one of `failures`.
StatusProbeOn(outputs, failures) ==
    /\ hpc = "status"
    /\ \/ \E stdout \in outputs : AfterStatus(statusFromOutput(stdout), Resolved(stdout))
       \/ \E error \in failures :
            IF isUnsupportedAuthCommand(formatCodexCliError(error))
            THEN /\ hpc' = "fallback"
                 /\ calls' = Append(Settle(calls, Rejected(error)), FallbackCall(options))
                 /\ UNCHANGED <<authStatus, gpc>>
            ELSE AfterStatus(statusFromFailure(error), Rejected(error))
    /\ UNCHANGED <<options, other, fnCall, fnReturn, hOutcome, chunks, pending, gOutcome, gEvent, yielded, processState, rl, proc, loopEndError, loginError>>

StatusProbe == StatusProbeOn(StatusOutputs, ExecaFailures)

\* getCodexAuthStatusFromExec: the `exec --json` probe settles.
FallbackProbeOn(failures) ==
    /\ hpc = "fallback"
    /\ \/ AfterStatus(statusFromExec(TRUE, Undef), Resolved(<<>>))
       \/ \E error \in failures : AfterStatus(statusFromExec(FALSE, error), Rejected(error))
    /\ UNCHANGED <<options, other, fnCall, fnReturn, hOutcome, chunks, pending, gOutcome, gEvent, yielded, processState, rl, proc, loopEndError, loginError>>

FallbackProbe == FallbackProbeOn(ExecaFailures)

\* ensureCodexLogin: `codex login` settles.
LoginOn(failures) ==
    /\ hpc = "login"
    /\ \/ /\ hpc' = "exec"
          /\ gpc' = "start"
          /\ calls' = Settle(calls, Resolved(<<>>))
          /\ UNCHANGED <<hOutcome, loginError>>
       \/ \E error \in failures :
            /\ hpc' = "done"
            /\ gpc' = gpc
            /\ hOutcome' = Raised(LoginFailedError(error))
            /\ loginError' = error
            /\ calls' = Settle(calls, Rejected(error))
    /\ UNCHANGED <<options, other, fnCall, fnReturn, chunks, pending, authStatus, gOutcome, gEvent, yielded, processState, rl, proc, loopEndError>>

Login == LoginOn(ExecaFailures)

(***************************************************************************)
(* run.ts: runCodexExec                                                    *)
(***************************************************************************)
\* What the generator was closed with when its consumer left at the yield.
Closed == [k |-> "closed"]

\* child.kill(): the signal is sent, and `killed` set, only while the
\* subprocess runs.
Kill(p) == IF p.state = "running" THEN [p EXCEPT !.killed = TRUE] ELSE p

\* The catch of lines 32-37 around runProcess.
rethrowSpawnError(codexPath, error) ==
    IF isENOENT(error) THEN createCodexCliNotFoundError(codexPath, error) ELSE error

\* An 'error' listener that stores the error as it came.
recordProcessErrorRaw(codexPath, err) == err

\* The 'error' listener of lines 58-63: what it stores in processState.error.
recordProcessError(codexPath, err) ==
    IF isENOENT(err) THEN createCodexCliNotFoundError(codexPath, err) ELSE err

\* A loop without the test of line 68.
errorAtLineSkipped(ps) == Null

\* An end of the loop without the test of line 85.
errorAtEndSkipped(ps) == Null

\* The test of line 68, at the top of each turn of the loop: the recorded
\* error that is thrown, if any.
errorAtLine(ps) == ps.error

\* The test of line 85, after the loop.
errorAtEnd(ps) == ps.error

\* The finally block, lines 96-101: rl.close() ...
finallyRl(r) == [r EXCEPT !.closed = TRUE]

\* A finally block that leaves the subprocess alone.
finallyProcSkipped(p) == p

\* ... and if (!process.killed) process.kill().
finallyProc(p) == IF ~p.killed THEN Kill(p) ELSE p

\* The promise of the execa subprocess, awaited at line 89. execa rejects it
\* when the subprocess fails: a non-zero exit code, an ending by signal, or
\* an 'error' event. The same file relies on this where it runs `codex
\* login` and `codex auth status` (lines 118-143, 154-164: a failing command
\* is a rejected `await execa(...)`), and no `reject: false` is passed at
\* line 217.
execaFailed(p) == p.errorFired \/ p.state = "failed" \/ p.exit # Num(0)

\* What execa rejects with: an error of its own, which names the command
\* and carries the exit code.
ExecaError(p) ==
    Obj([name |-> S1("ExecaError"), shortMessage |-> S1("Command failed: codex exec --json"), exitCode |-> p.exit])

\* Lines 89-95 once the promise has settled: the outcome of the generator.
awaitProcessOutcome(p, ps) ==
    IF execaFailed(p) THEN Raised(ExecaError(p))
    ELSE LET exitCode == p.exit
             errorOutput == OrElse(OptGet(ps.error, "message"), Str(Trim(ps.stderrLogs)))
         IN IF exitCode # Null /\ exitCode # Num(0)
            THEN Raised(ExitError(exitCode.v, ToStr(errorOutput)))
            ELSE Returned

\* A generator that, when it fails, closes what it holds and runs again.
FinishGenRetried(outcome, rlNow) ==
    /\ gpc' = IF outcome.k = "raised" THEN "start" ELSE "done"
    /\ gOutcome' = IF outcome.k = "raised" THEN gOutcome ELSE outcome
    /\ gEvent' = Undef
    /\ rl' = finallyRl(rlNow)
    /\ proc' = finallyProc(proc)
    /\ hpc' = IF outcome.k = "raised" THEN "exec" ELSE "done"
    /\ hOutcome' = IF outcome.k = "raised" THEN hOutcome ELSE outcome

\* A generator that, having ended, goes back to waiting for a line.
FinishGenResumed(outcome, rlNow) ==
    /\ gpc' = "awaitLine"
    /\ gOutcome' = outcome
    /\ gEvent' = Undef
    /\ rl' = finallyRl(rlNow)
    /\ proc' = finallyProc(proc)
    /\ hpc' = "exec"
    /\ hOutcome' = hOutcome

\* The generator ends with `outcome`, by a throw or by running off its end:
\* the finally block runs, and createMessage, which awaits it in its
\* for-await without a catch, ends the same way.
FinishGen(outcome, rlNow) ==
    /\ gpc' = "done"
    /\ gOutcome' = outcome
    /\ gEvent' = Undef
    /\ rl' = finallyRl(rlNow)
    /\ proc' = finallyProc(proc)
    /\ hpc' = "done"
    /\ hOutcome' = outcome

\* The first next() runs the body up to its first await (lines 27-67):
\* runProcess spawns the subprocess and schedules the stdin write, the line
\* reader is created and the listeners are attached.
GenStart ==
    /\ hpc = "exec"
    /\ gpc = "start"
    /\ calls' = Append(calls, ExecCall(options))
    /\ \/ /\ proc' = [NoProc EXCEPT !.state = "running", !.stdoutOpen = TRUE]
          /\ gpc' = "awaitLine"
          /\ UNCHANGED <<hpc, hOutcome, gOutcome>>
       \/ \E error \in SpawnErrors :
            \* the spawn fails and the failure is reported by the 'error' event
            /\ proc' = [NoProc EXCEPT !.state = "failed", !.stdoutOpen = TRUE, !.spawnError = error]
            /\ gpc' = "awaitLine"
            /\ UNCHANGED <<hpc, hOutcome, gOutcome>>
       \/ \E error \in SpawnErrors :
            \* runProcess throws: no subprocess, no line reader, no finally
            /\ proc' = [NoProc EXCEPT !.spawnError = error]
            /\ gpc' = "done"
            /\ gOutcome' = Raised(rethrowSpawnError(codexPathOf(options.codexCliPath), error))
            /\ hpc' = "done"
            /\ hOutcome' = Raised(rethrowSpawnError(codexPathOf(options.codexCliPath), error))
    /\ rl' = NoRl
    /\ processState' = NoProcessState
    /\ UNCHANGED <<options, other, fnCall, fnReturn, chunks, pending, authStatus, gEvent, yielded, loopEndError, loginError>>

\* One turn of the for-await loop with a line the reader holds (lines 67-83).
\* The iterator of the reader hands out the lines it has buffered also after
\* the reader was closed.
GenLine ==
    /\ hpc = "exec"
    /\ gpc = "awaitLine"
    /\ rl.queue # <<>>
    /\ LET line == Head(rl.queue)
           rest == [rl EXCEPT !.queue = Tail(rl.queue)]
           trimmed == TrimText(line)
           parsed == attemptParseEvent(trimmed)
       IN IF Truthy(errorAtLine(processState))
          THEN /\ FinishGen(Raised(errorAtLine(processState)), rest)
               /\ loopEndError' = processState.error
               /\ yielded' = yielded
          ELSE /\ rl' = rest
               /\ UNCHANGED <<proc, hpc, hOutcome, gOutcome, loopEndError>>
               /\ IF trimmed = <<>> \/ ~Truthy(parsed)
                  THEN UNCHANGED <<gpc, gEvent, yielded>>
                  ELSE /\ gpc' = "yield"
                       /\ gEvent' = parsed
                       /\ yielded' = Append(yielded, parsed)
    /\ UNCHANGED <<options, other, fnCall, fnReturn, chunks, pending, authStatus, calls, processState, loginError>>

\* The loop ends: the reader is closed and holds no line (lines 85-87).
GenLoopEnd ==
    /\ hpc = "exec"
    /\ gpc = "awaitLine"
    /\ rl.queue = <<>>
    /\ rl.closed
    /\ loopEndError' = processState.error
    /\ IF Truthy(errorAtEnd(processState))
       THEN FinishGen(Raised(errorAtEnd(processState)), rl)
       ELSE /\ gpc' = "awaitProcess"
            /\ UNCHANGED <<gOutcome, gEvent, rl, proc, hpc, hOutcome>>
    /\ UNCHANGED <<options, other, fnCall, fnReturn, chunks, pending, authStatus, calls, yielded, processState, loginError>>

\* `await process` settles (lines 89-95), then the finally block.
GenAwaitProcess ==
    /\ hpc = "exec"
    /\ gpc = "awaitProcess"
    /\ proc.closeFired \/ proc.errorFired
    /\ FinishGen(awaitProcessOutcome(proc, processState), rl)
    /\ UNCHANGED <<options, other, fnCall, fnReturn, chunks, pending, authStatus, calls, yielded, processState, loopEndError, loginError>>

(***************************************************************************)
(* The subprocess and its callbacks                                        *)
(***************************************************************************)
\* The listeners exist and somebody still reads what they record.
Live == gpc \in {"awaitLine", "yield", "awaitProcess"}

\* The setImmediate callback of runProcess (lines 226-239). stdin.write
\* takes a string or a buffer: given anything else it throws, and the catch
\* kills the subprocess; given a string, the write may still fail, and its
\* callback kills the subprocess.
StdinDeliver ==
    /\ Live
    /\ ~proc.stdinDone
    /\ \E writeFails \in BOOLEAN :
         LET prompt == calls[Len(calls)].input   \* the prompt runProcess was called with
             threw == ~IsString(prompt)
             p == IF threw \/ writeFails THEN Kill(proc) ELSE proc
         IN proc' = [p EXCEPT !.stdinDone = TRUE,
                              !.stdinWritten = IF threw \/ writeFails THEN <<>> ELSE <<prompt>>,
                              !.stdinEnded = ~threw,
                              !.stdinError = IF threw THEN "type" ELSE IF writeFails THEN "write" ELSE "none"]
    /\ UNCHANGED <<options, other, fnCall, fnReturn, hVars, authStatus, calls, loginError, gVars, processState, rl>>

\* The subprocess writes a line to stdout and the reader buffers it. (A
\* closed reader drops the line: nothing changes, and no step is taken.)
StdoutLineOn(lines) ==
    /\ Live
    /\ proc.state \in {"running", "exited"}
    /\ proc.stdoutOpen
    /\ ~rl.closed
    /\ proc.nLines < MaxLines
    /\ \E line \in lines :
         rl' = [rl EXCEPT !.queue = Append(rl.queue, line)]
    /\ proc' = [proc EXCEPT !.nLines = proc.nLines + 1]
    /\ UNCHANGED <<options, other, fnCall, fnReturn, hVars, authStatus, calls, loginError, gVars, processState>>

StdoutLine == StdoutLineOn(StdoutLines)

\* stdout ends: the reader closes itself.
StdoutEnd ==
    /\ Live
    /\ proc.stdoutOpen
    /\ proc.state \in {"running", "exited"} \/ (proc.state = "failed" /\ proc.errorFired)
    /\ proc' = [proc EXCEPT !.stdoutOpen = FALSE]
    /\ rl' = [rl EXCEPT !.closed = TRUE]
    /\ UNCHANGED <<options, other, fnCall, fnReturn, hVars, authStatus, calls, loginError, gVars, processState>>

\* The 'data' listener of stderr (lines 50-52).
StderrData ==
    /\ Live
    /\ proc.state \in {"running", "exited"}
    /\ ~proc.closeFired
    /\ proc.nStderr < MaxStderr
    /\ \E data \in StderrChunks :
         processState' = [processState EXCEPT !.stderrLogs = processState.stderrLogs \o data]
    /\ proc' = [proc EXCEPT !.nStderr = proc.nStderr + 1]
    /\ UNCHANGED <<options, other, fnCall, fnReturn, hVars, authStatus, calls, loginError, gVars, rl>>

\* The subprocess ends.
ProcExit ==
    /\ Live
    /\ proc.state = "running"
    /\ \E status \in ExitStatuses : proc' = [proc EXCEPT !.state = "exited", !.exit = status]
    /\ UNCHANGED <<options, other, fnCall, fnReturn, hVars, authStatus, calls, loginError, gVars, processState, rl>>

\* The 'close' listener (lines 54-56): the subprocess has ended and its
\* streams are closed. A failed spawn reports its negative error number.
CloseEvent ==
    /\ Live
    /\ ~proc.closeFired
    /\ ~proc.stdoutOpen
    /\ proc.state = "exited" \/ (proc.state = "failed" /\ proc.errorFired)
    /\ processState' = [processState EXCEPT !.exitCode = IF proc.state = "failed" THEN Num(-2) ELSE proc.exit]
    /\ proc' = [proc EXCEPT !.closeFired = TRUE]
    /\ UNCHANGED <<options, other, fnCall, fnReturn, hVars, authStatus, calls, loginError, gVars, rl>>

\* The 'error' listener (lines 58-65): a failed spawn reports its error
\* before anything else happens; a running subprocess may report one once.
ErrorEvent ==
    /\ Live
    /\ ~proc.errorFired
    /\ ~proc.closeFired
    /\ \E err \in SpawnErrors \cup RuntimeErrors :
         /\ \/ (proc.state = "failed" /\ err = proc.spawnError)
            \/ (proc.state = "running" /\ err \in RuntimeErrors)
         /\ processState' = [processState EXCEPT !.error = recordProcessError(codexPathOf(options.codexCliPath), err)]
    /\ rl' = [rl EXCEPT !.closed = TRUE]
    /\ proc' = [proc EXCEPT !.errorFired = TRUE]
    /\ UNCHANGED <<options, other, fnCall, fnReturn, hVars, authStatus, calls, loginError, gVars>>

(***************************************************************************)
(* codex-cli.ts: the for-await loop of createMessage (lines 272-287)       *)
(***************************************************************************)
\* The error createMessage throws for an event, Null when it throws none:
\*   const errorMessage = getCodexError(event)
\*   if (errorMessage) throw new Error(errorMessage)
eventError(event) ==
    IF Truthy(getCodexError(event)) THEN NewError(ToStr(getCodexError(event))) ELSE Null

\* A loop body that notes the error and goes on to the next event.
LeaveLoopSwallowed(outcome) ==
    /\ hpc' = "exec"
    /\ hOutcome' = outcome
    /\ pending' = <<>>
    /\ gpc' = "awaitLine"
    /\ gOutcome' = gOutcome
    /\ gEvent' = Undef
    /\ rl' = rl
    /\ proc' = proc

\* The for-await loop is left while the generator is suspended at its yield
\* (a throw in the loop body, or the caller closing createMessage): the
\* generator is closed by return(), which runs its finally block.
LeaveLoop(outcome) ==
    /\ hpc' = "done"
    /\ hOutcome' = outcome
    /\ pending' = <<>>
    /\ gpc' = "done"
    /\ gOutcome' = Closed
    /\ gEvent' = Undef
    /\ rl' = finallyRl(rl)
    /\ proc' = finallyProc(proc)

\* The loop body for the event the generator yielded.
HandleEvent ==
    /\ hpc = "exec"
    /\ gpc = "yield"
    /\ LET error == eventError(gEvent)
           out == processEvent(gEvent, getModel(options.apiModelId).info)
       IN IF error # Null
          THEN /\ LeaveLoop(Raised(error))
               /\ chunks' = chunks
          ELSE IF out = <<>>
          THEN /\ gpc' = "awaitLine"
               /\ gEvent' = Undef
               /\ UNCHANGED <<hpc, hOutcome, chunks, pending, gOutcome, rl, proc>>
          ELSE /\ hpc' = "yielding"
               /\ chunks' = Append(chunks, Head(out))
               /\ pending' = Tail(out)
               /\ UNCHANGED <<hOutcome, gpc, gOutcome, gEvent, rl, proc>>
    /\ UNCHANGED <<options, other, fnCall, fnReturn, authStatus, calls, yielded, processState, loopEndError, loginError>>

\* The caller pulls the next chunk: the next chunk of the event, or else
\* the loop asks the generator for its next event.
CallerPull ==
    /\ hpc = "yielding"
    /\ IF pending # <<>>
       THEN /\ chunks' = Append(chunks, Head(pending))
            /\ pending' = Tail(pending)
            /\ UNCHANGED <<hpc, gpc, gEvent>>
       ELSE /\ hpc' = "exec"
            /\ gpc' = "awaitLine"
            /\ gEvent' = Undef
            /\ UNCHANGED <<chunks, pending>>
    /\ UNCHANGED <<options, other, fnCall, fnReturn, hOutcome, authStatus, calls, gOutcome, yielded, processState, rl, proc, loopEndError, loginError>>

\* What a caller that throws into the stream throws.
CallerError == NewError(<<"aborted by the caller">>)

\* The caller abandons the stream at a chunk: return() or throw().
CallerAbandon ==
    /\ hpc = "yielding"
    /\ \/ LeaveLoop(Closed)
       \/ LeaveLoop(Raised(CallerError))
    /\ UNCHANGED <<options, other, fnCall, fnReturn, chunks, authStatus, calls, yielded, processState, loopEndError, loginError>>

Next ==
    \/ HStart
    \/ StatusProbe
    \/ FallbackProbe
    \/ Login
    \/ GenStart
    \/ GenLine
    \/ GenLoopEnd
    \/ GenAwaitProcess
    \/ StdinDeliver
    \/ StdoutLine
    \/ StdoutEnd
    \/ StderrData
    \/ ProcExit
    \/ CloseEvent
    \/ ErrorEvent
    \/ HandleEvent
    \/ CallerPull
    \/ CallerAbandon

Spec == Init /\ [][Next]_vars

(***************************************************************************)
(* createMessage on one event: the loop body on every shape of event       *)
(***************************************************************************)
\* The fields an event may carry, each absent (Undef) or of one of the
\* values listed.
EventTypes == {Undef, S1("response.output_text.delta"), Str(<<"response.", "error">>), Str(<<"error">>), Num(7)}

EventStatuses == {Undef, S1("error"), S1("completed")}

EventErrors == {Undef, Null, Str(<<>>), S1("boom"), Obj([message |-> S1("Bad request")]), Obj([code |-> Num(1)]), Bool(FALSE)}

EventMessages == {Undef, S1("top-level message"), Num(42)}

EventDeltas == {Undef, S1("Hello")}

EventTexts == {Undef, S1("hi")}

\* The object with the fields of f that are present.
EventOf(f) == Obj([k \in {j \in DOMAIN f : f[j] # Undef} |-> f[k]])

Events == {EventOf([type |-> ty, status |-> st, error |-> er, message |-> ms, delta |-> de, text |-> tx]) : ty \in EventTypes, st \in EventStatuses, er \in EventErrors, ms \in EventMessages, de \in EventDeltas, tx \in EventTexts}

\* An API-key run whose generator has just yielded its first event: the
\* state GenStart, StdoutLine and GenLine lead to when the subprocess
\* writes the event as its first line.
InitEv ==
    /\ options = HandlerOptions(Undef, S1("api-key"), S1("sk-test-123"))
    /\ hpc = "exec"
    /\ hOutcome = Running
    /\ chunks = <<>>
    /\ pending = <<>>
    /\ authStatus = NoStatus
    /\ calls = <<ExecCall(options)>>
    /\ gpc = "yield"
    /\ gOutcome = Running
    /\ gEvent \in Events
    /\ yielded = <<gEvent>>
    /\ processState = NoProcessState
    /\ rl = NoRl
    /\ proc = [NoProc EXCEPT !.state = "running", !.stdoutOpen = TRUE, !.nLines = 1]
    /\ loopEndError = Undef
    /\ loginError = Undef
    /\ other = NotStarted
    /\ fnCall = NoCall
    /\ fnReturn = NotReturned

NextEv ==
    \/ HandleEvent
    \/ CallerPull
    \/ CallerAbandon

SpecEv == InitEv /\ [][NextEv]_vars

(***************************************************************************)
(* createMessage up to the exec run, on every outcome of the auth calls    *)
(***************************************************************************)
\* stdout of a successful `codex auth status --json`: the outputs above and
\* white space alone, JSON that is no object, objects with the third name
\* of the flag, with a flag that is no boolean, with a status that says
\* nothing, with a signed-out status, and with a flag and a status at odds.
AuthOutputs ==
    StatusOutputs \cup {<<Ws>>, <<Json(Num(1))>>, <<Json(Null)>>, <<Ws, Json(Obj([loggedIn |-> Bool(TRUE)]))>>, <<Json(Obj([authenticated |-> S1("yes")]))>>, <<Json(Obj([status |-> S1("ok")]))>>, <<Json(Obj([version |-> S1("0.1")]))>>, <<Json(Obj([status |-> Str(<<"Signed-Out">>)]))>>, <<Json(Obj([authenticated |-> Bool(FALSE), status |-> Str(<<"Auth", "enticated">>)]))>>}

\* What a failed execa call rejects with: the failures above, the other
\* wordings of an unsupported subcommand (in stderr, in the message, as a
\* string cause), a spawn failure, and an error that says nothing.
AuthFailures ==
    ExecaFailures \cup {Obj([stderr |-> Str(<<"codex: ", "Invalid choice", ": 'auth'">>), shortMessage |-> S1("Command failed with exit code 2: codex")]), Obj([message |-> Str(<<"Unrecognized Command", " auth">>)]), Obj([cause |-> Str(<<"UNKNOWN SUBCOMMAND">>)]), Obj([code |-> S1("ENOENT"), message |-> Str(<<"spawn codex ", "ENOENT">>)]), Obj([exitCode |-> Num(1)]), Str(<<"not logged in">>)}

StatusProbeAll == StatusProbeOn(AuthOutputs, AuthFailures)

FallbackProbeAll == FallbackProbeOn(AuthFailures)

LoginAll == LoginOn(AuthFailures)

NextAuth ==
    \/ HStart
    \/ StatusProbeAll
    \/ FallbackProbeAll
    \/ LoginAll

SpecAuth == Init /\ [][NextAuth]_vars

(***************************************************************************)
(* One run in the API-key mode, on every kind of stdout line               *)
(***************************************************************************)
EvTextDelta == Obj([type |-> S1("response.output_text.delta"), delta |-> S1("Hello")])

\* The lines above and: JSON values that are falsy (0, null), a JSON value
\* that is no object, two JSON values on one line, and a text delta.
AllStdoutLines ==
    StdoutLines \cup {<<Json(Num(0))>>, <<Ws, Json(Null)>>, <<Json(Num(5))>>, <<Json(Num(1)), Ws, Json(Num(2))>>, <<Json(EvTextDelta), Ws>>}

InitLines ==
    /\ Init
    /\ options = HandlerOptions(Undef, S1("api-key"), S1("sk-test-123"))

StdoutLineAll == StdoutLineOn(AllStdoutLines)

NextLines ==
    \/ HStart
    \/ GenStart
    \/ GenLine
    \/ GenLoopEnd
    \/ GenAwaitProcess
    \/ StdinDeliver
    \/ StdoutLineAll
    \/ StdoutEnd
    \/ StderrData
    \/ ProcExit
    \/ CloseEvent
    \/ ErrorEvent
    \/ HandleEvent
    \/ CallerPull
    \/ CallerAbandon

SpecLines == InitLines /\ [][NextLines]_vars

(***************************************************************************)
(* One run whose consumer keeps pulling and whose subprocess ends          *)
(***************************************************************************)
\* The steps of one run in the API-key mode; the caller never abandons the
\* stream. (What stderr writes is left out: it is only stored.)
NextLive ==
    \/ HStart
    \/ GenStart
    \/ GenLine
    \/ GenLoopEnd
    \/ GenAwaitProcess
    \/ StdinDeliver
    \/ StdoutLine
    \/ StdoutEnd
    \/ ProcExit
    \/ CloseEvent
    \/ ErrorEvent
    \/ HandleEvent
    \/ CallerPull

\* The event loop runs every continuation that is ready: the steps of the
\* generator and of the loop of createMessage.
SchedulerFairness ==
    /\ WF_vars(HStart)
    /\ WF_vars(GenStart)
    /\ WF_vars(GenLine)
    /\ WF_vars(GenLoopEnd)
    /\ WF_vars(GenAwaitProcess)
    /\ WF_vars(HandleEvent)

\* The consumer keeps pulling.
ConsumerFairness == WF_vars(CallerPull)

\* The subprocess ends, its stdout ends and 'close' is emitted; a spawn that
\* failed emits 'error'.
SubprocessFairness ==
    /\ WF_vars(ProcExit)
    /\ WF_vars(StdoutEnd)
    /\ WF_vars(CloseEvent)
    /\ WF_vars(ErrorEvent /\ proc.state = "failed")

SpecLive == InitLines /\ [][NextLive]_vars /\ SchedulerFairness /\ ConsumerFairness /\ SubprocessFairness

(***************************************************************************)
(* Two invocations of createMessage on one handler, interleaved            *)
(***************************************************************************)
\* The state of the invocation whose steps are being taken.
Cur ==
    [hpc |-> hpc, hOutcome |-> hOutcome, chunks |-> chunks, pending |-> pending, authStatus |-> authStatus, calls |-> calls, gpc |-> gpc, gOutcome |-> gOutcome, gEvent |-> gEvent, yielded |-> yielded, processState |-> processState, rl |-> rl, proc |-> proc, loopEndError |-> loopEndError, loginError |-> loginError]

\* A processState declared once for the module: every call uses the same.
processStateOfModule(own, shared) == shared

\* `const processState` is declared in the body of runCodexExec (lines
\* 43-47): the one a call uses is its own, whatever another call holds.
processStateOfCall(own, shared) == own

\* The event loop turns from one invocation to the other: between two
\* steps of one of them, any number of steps of the other may run. The
\* locals of createMessage and of runCodexExec (the subprocess, the line
\* reader, processState, the position in the body) belong to the call; the
\* handler's options are the one thing the two have in common.
Switch ==
    /\ other' = Cur
    /\ hpc' = other.hpc
    /\ hOutcome' = other.hOutcome
    /\ chunks' = other.chunks
    /\ pending' = other.pending
    /\ authStatus' = other.authStatus
    /\ calls' = other.calls
    /\ gpc' = other.gpc
    /\ gOutcome' = other.gOutcome
    /\ gEvent' = other.gEvent
    /\ yielded' = other.yielded
    /\ processState' = processStateOfCall(other.processState, processState)
    /\ rl' = other.rl
    /\ proc' = other.proc
    /\ loopEndError' = other.loopEndError
    /\ loginError' = other.loginError
    /\ UNCHANGED <<options, fnCall, fnReturn>>

\* The number of lines each of the two subprocesses writes.
MaxPairLines == 1

\* What the subprocesses of the two invocations write, and how they fail
\* and end: one kind of each.
PairLines == {<<Json(EvTextDelta), Ws>>}

PairSpawnErrors == {e \in SpawnErrors : Get(e, "code") = S1("ENOENT")}

PairExitStatuses == {Num(0), Num(1)}

GenStartPair == GenStart /\ proc'.spawnError \in PairSpawnErrors \cup {Undef}

StdoutLinePair == StdoutLineOn(PairLines) /\ proc.nLines < MaxPairLines

ProcExitPair == ProcExit /\ proc'.exit \in PairExitStatuses

NextPair ==
    \/ HStart
    \/ GenStartPair
    \/ GenLine
    \/ GenLoopEnd
    \/ GenAwaitProcess
    \/ StdoutLinePair
    \/ StdoutEnd
    \/ StderrData
    \/ ProcExitPair
    \/ CloseEvent
    \/ ErrorEvent
    \/ HandleEvent
    \/ CallerPull
    \/ Switch

SpecPair == InitLines /\ [][NextPair]_vars

(***************************************************************************)
(* createMessage up to the spawn of the main process, on every             *)
(* configuration of the auth mode and the API key                          *)
(***************************************************************************)
\* The API keys a configuration may hold.
ConfiguredKeys == {Undef, Str(<<>>), S1("sk-test-123"), S1("sk-other")}

\* The configurations: the path given or not, the auth mode unset, null,
\* "chatgpt" or "api-key", and each of the keys.
KeyConfigs ==
    {HandlerOptions(p, m, k) : p \in {Undef, S1("/opt/codex")}, m \in {Undef, Null, S1("chatgpt"), S1("api-key")}, k \in ConfiguredKeys}

InitKeys ==
    /\ options \in KeyConfigs
    /\ hpc = "init"
    /\ hOutcome = Running
    /\ chunks = <<>>
    /\ pending = <<>>
    /\ authStatus = NoStatus
    /\ calls = <<>>
    /\ gpc = "none"
    /\ gOutcome = Running
    /\ gEvent = Undef
    /\ yielded = <<>>
    /\ processState = NoProcessState
    /\ rl = NoRl
    /\ proc = NoProc
    /\ loopEndError = Undef
    /\ loginError = Undef
    /\ other = NotStarted
    /\ fnCall = NoCall
    /\ fnReturn = NotReturned

NextKeys ==
    \/ HStart
    \/ StatusProbeAll
    \/ FallbackProbeAll
    \/ LoginAll
    \/ GenStart

SpecKeys == InitKeys /\ [][NextKeys]_vars

(***************************************************************************)
(* The functions of the modules, each called on its own                    *)
(***************************************************************************)
ReturnedValue(v) == [k |-> "returned", value |-> v]

\* The options runProcess may be given: each absent, empty, blank, plain,
\* or with white space around it.
RunProcessCalls ==
    {[fn |-> "runProcess", modelId |-> m, outputSchema |-> o, sandbox |-> sb, fullAuto |-> f] :
        m \in {Undef, Str(<<>>), Str(<<" ">>), S1("gpt-5.1-codex"), Str(<<" ", "gpt-5.1-codex", "\n">>)},
        o \in {Undef, Str(<<>>), Str(<<" ">>), S1("schema.json"), Str(<<" ", "schema.json">>)},
        sb \in {Undef, Str(<<>>), Str(<<"\n", " ">>), S1("docker"), Str(<<"docker", " ">>)},
        f \in {Undef, Bool(TRUE), Bool(FALSE)}}

\* runProcess builds its argument list (lines 193-215).
CallRunProcess ==
    /\ fnCall.fn = "runProcess"
    /\ fnReturn = NotReturned
    /\ fnReturn' = ReturnedValue(runProcessArgs(fnCall.modelId, fnCall.outputSchema, fnCall.sandbox, fnCall.fullAuto))
    /\ UNCHANGED <<options, other, fnCall, hVars, authStatus, calls, loginError, gVars, processState, rl, proc>>

\* The subprocesses and the env overrides a caller may supply: none, an
\* empty object, a variable that is inherited too, one that is not, both.
SpawnCalls ==
    {[fn |-> "spawn", cmd |-> c, env |-> e] :
        c \in {"status", "fallback", "login", "exec"},
        e \in {Undef, Null, Obj(<<>>), Obj([OPENAI_API_KEY |-> S1("sk-caller")]), Obj([CODEX_HOME |-> S1("/home/codex")]), Obj([PATH |-> S1("/opt/bin"), CODEX_HOME |-> S1("/home/codex")])}}

\* One of the subprocesses is spawned for a caller that supplied `env`.
CallSpawn ==
    /\ fnCall.fn = "spawn"
    /\ fnReturn = NotReturned
    /\ fnReturn' = ReturnedValue(spawnEnv(fnCall.cmd, fnCall.env))
    /\ UNCHANGED <<options, other, fnCall, hVars, authStatus, calls, loginError, gVars, processState, rl, proc>>

\* The blocks a message content is made of: text, images (with a base64
\* source, with a url source that names no media type, with no source), a
\* tool use, tool results (string content; nested blocks, an image among
\* them) and a block of a kind the payload has no form for.
PromptBlocks ==
    {Obj([type |-> S1("text"), text |-> S1("Use a tool")]),
     Obj([type |-> S1("image"), source |-> Obj([type |-> S1("base64"), media_type |-> S1("image/png"), data |-> S1("abc")])]),
     Obj([type |-> S1("image"), source |-> Obj([type |-> S1("url"), url |-> S1("https://example.com/a.png")])]),
     Obj([type |-> S1("image")]),
     Obj([type |-> S1("tool_use"), id |-> S1("call-1"), name |-> S1("run_command"), input |-> Obj([command |-> S1("ls")])]),
     Obj([type |-> S1("tool_result"), tool_use_id |-> S1("call-1"), content |-> S1("done")]),
     Obj([type |-> S1("tool_result"), tool_use_id |-> S1("call-2"), content |-> Arr(<<Obj([type |-> S1("text"), text |-> S1("one")]), Obj([type |-> S1("image"), source |-> Obj([type |-> S1("base64"), media_type |-> S1("image/jpeg"), data |-> S1("xyz")])]), Obj([type |-> S1("text"), text |-> S1("two")])>>)]),
     Obj([type |-> S1("document"), title |-> S1("notes")])}

\* The blocks of one message content, at most.
MaxBlocks == 2

\* A content is a string or a sequence of blocks.
PromptContents ==
    {S1("Hello")} \cup {Arr(blocks) : blocks \in UNION {[1..n -> PromptBlocks] : n \in 0..MaxBlocks}}

\* The message lists buildCodexPrompt is called on: one message of any
\* content, and conversations of three messages.
PromptCalls ==
    {[fn |-> "buildCodexPrompt", systemPrompt |-> S1("System prompt"), messages |-> <<Obj([role |-> S1("user"), content |-> c])>>] : c \in PromptContents}
    \cup {[fn |-> "buildCodexPrompt", systemPrompt |-> sp, messages |-> <<Obj([role |-> S1("user"), content |-> S1("Hi")]), Obj([role |-> S1("assistant"), content |-> Arr(<<b>>)]), Obj([role |-> S1("user"), content |-> Arr(<<c, b>>)])>>] :
              sp \in {Str(<<" ", "System", " ">>), Str(<<" ">>)}, b \in PromptBlocks, c \in PromptBlocks}

CallBuildCodexPrompt ==
    /\ fnCall.fn = "buildCodexPrompt"
    /\ fnReturn = NotReturned
    /\ fnReturn' = ReturnedValue(buildCodexPrompt(fnCall.systemPrompt, fnCall.messages))
    /\ UNCHANGED <<options, other, fnCall, hVars, authStatus, calls, loginError, gVars, processState, rl, proc>>

\* The items an event may carry: a text item, a reasoning item with no
\* text, a message item with two text blocks, one with a block that is no
\* text, one with no blocks, and an item of no type that holds a text.
EventItems ==
    {Undef,
     Obj([type |-> S1("text"), text |-> S1("item text")]),
     Obj([type |-> S1("reasoning")]),
     EvMessageItem.v.item,
     Obj([type |-> S1("message"), content |-> Arr(<<Obj([type |-> S1("refusal"), text |-> S1("no")]), Obj([type |-> S1("output_text"), text |-> S1("c")])>>)]),
     Obj([type |-> S1("message"), content |-> Arr(<<>>)]),
     Obj([text |-> S1("plain item")])}

\* The usage object of the scenario of the tests (codex-cli.spec.ts 317-352).
SampleUsage == Obj([input_tokens |-> Num(10), output_tokens |-> Num(5)])

\* Events of every typed dialect, of a type that is none and of no type,
\* each with the fields the later rules look at present or absent.
DialectEvents ==
    {EventOf([type |-> ty, delta |-> de, item |-> it, choices |-> ch, message |-> ms, text |-> tx, usage |-> us]) :
        ty \in TextDeltaTypes \cup ReasoningDeltaTypes \cup ToolCallDeltaTypes \cup OutputItemTypes \cup CompletedTypes \cup {Undef, S1("thread.started")},
        de \in {Undef, Str(<<>>), S1("Hello")},
        it \in EventItems,
        ch \in {Undef, Arr(<<Obj([delta |-> Obj([content |-> S1("legacy")])])>>)},
        ms \in {Undef, Obj([content |-> S1("message text")])},
        tx \in {Undef, S1("hi")},
        us \in {Undef, SampleUsage}}

\* The usage objects of the field-naming conventions normalizeUsage reads:
\* the flat input and output counts under either name, absent, zero,
\* negative or a string; the details under either name; the cache counts
\* under each of their names; a reasoning count that is a number or not;
\* and a field named as the cost of the chunk is.
UsageObjects ==
    {EventOf([input_tokens |-> in[1], prompt_tokens |-> in[2],
              output_tokens |-> out[1], completion_tokens |-> out[2],
              input_tokens_details |-> det[1], prompt_tokens_details |-> det[2],
              cache_creation_input_tokens |-> cw[1], cache_write_tokens |-> cw[2],
              cache_read_input_tokens |-> cr[1], cache_read_tokens |-> cr[2], cached_tokens |-> cr[3],
              output_tokens_details |-> rt, totalCost |-> tc]) :
        in \in {<<Undef, Undef>>, <<Num(10), Undef>>, <<Undef, Num(7)>>, <<Num(0), Num(7)>>, <<Num(0), Undef>>, <<Num(-3), Undef>>},
        out \in {<<Undef, Undef>>, <<Num(5), Undef>>, <<Undef, Num(4)>>, <<S1("5"), Undef>>},
        det \in {<<Undef, Undef>>, <<Obj([cached_tokens |-> Num(3), cache_miss_tokens |-> Num(4)]), Undef>>, <<Undef, Obj([cache_miss_tokens |-> Num(2)])>>, <<Obj([cached_tokens |-> Num(0)]), Undef>>},
        cw \in {<<Undef, Undef>>, <<Num(0), Undef>>, <<Num(2), Undef>>, <<Undef, Num(9)>>},
        cr \in {<<Undef, Undef, Undef>>, <<Num(0), Undef, Undef>>, <<Num(6), Undef, Undef>>, <<Undef, Num(5), Undef>>, <<Undef, Undef, Num(1)>>},
        rt \in {Undef, Obj([reasoning_tokens |-> Num(8)]), Obj([reasoning_tokens |-> S1("8")])},
        tc \in {Undef, Num(99)}}

\* Events with a usage in `response`, at the top, in both or in neither.
UsageEvents ==
    {EventOf([type |-> S1("response.completed"), response |-> Obj([usage |-> u])]) : u \in UsageObjects}
    \cup {EventOf([type |-> ty, response |-> rs, usage |-> us]) :
              ty \in CompletedTypes \cup {Undef},
              rs \in {Undef, Obj(<<>>), Obj([usage |-> SampleUsage]), Obj([usage |-> Null])},
              us \in {Undef, Null, Obj(<<>>), Obj([input_tokens |-> Num(1), output_tokens |-> Num(2)])}}

\* Tool-call-argument delta events: the call id, the name and the argument
\* fragment under each of their field names, absent, empty or set, and an
\* index that is absent, null, zero or positive.
ToolCallEvents ==
    {EventOf([type |-> ty, call_id |-> c, tool_call_id |-> tc, id |-> i, name |-> n, function_name |-> fname, delta |-> de, arguments |-> ar, index |-> ix]) :
        ty \in ToolCallDeltaTypes,
        c \in {Undef, Str(<<>>), S1("call-1")},
        tc \in {Undef, Str(<<>>), S1("tool-call-2")},
        i \in {Undef, S1("id-3")},
        n \in {Undef, Str(<<>>), S1("run_command")},
        fname \in {Undef, S1("run_function")},
        de \in {Undef, Str(<<>>), S1("{\"command\":")},
        ar \in {Undef, S1("\"ls\"}")},
        ix \in {Undef, Null, Num(0), Num(2)}}

\* processEvent is called on one event with the descriptor of a model.
EventCall(e) == [fn |-> "processEvent", event |-> e, modelInfo |-> getModel(Undef).info]

\* The model ids a handler may be configured with: none, empty, blank, a
\* registered id, one with white space around it, the default id, ids
\* outside the registry, and names every object inherits.
GetModelCalls ==
    {[fn |-> "getModel", apiModelId |-> m] :
        m \in {Undef, Str(<<>>), Str(<<" ", " ", " ">>), S1("gpt-5.1-codex"), Str(<<" ", "gpt-5.1-codex-mini", "\n">>), S1("gpt-5.1-codex-max"),
               S1("custom-codex-model"), Str(<<" ", "custom-codex-model">>), S1("constructor"), Str(<<"toString", " ">>)}}

CallGetModel ==
    /\ fnCall.fn = "getModel"
    /\ fnReturn = NotReturned
    /\ fnReturn' = ReturnedValue(getModel(fnCall.apiModelId))
    /\ UNCHANGED <<options, other, fnCall, hVars, authStatus, calls, loginError, gVars, processState, rl, proc>>

\* The objects `auth status --json` may print: each of the three keys
\* absent or a boolean (authenticated also null or a string), and a status
\* that is absent, a string of either spelling and case, or a number.
AuthStatusObjects ==
    {EventOf([authenticated |-> a, logged_in |-> l, loggedIn |-> li, status |-> st]) :
        a \in {Undef, Null, Bool(TRUE), Bool(FALSE), S1("yes")},
        l \in {Undef, Bool(TRUE), Bool(FALSE)},
        li \in {Undef, Bool(TRUE), Bool(FALSE)},
        st \in {Undef, Num(1), S1("ok"), Str(<<"Un", "Auth", "enticated">>), Str(<<"Auth", "enticated">>), Str(<<"un", "auth", "orized">>),
                S1("Signed-In"), S1("signed-out"), Str(<<"Signed-In", ", ", "un", "auth", "orized">>), Str(<<"was ", "Signed-Out", ", now ", "signed-in">>)}}

\* parseAuthStatus is called on the output of the status command, printed
\* bare or with white space around it.
ParseCalls ==
    {[fn |-> "parseAuthStatus", output |-> out] : out \in UNION {{<<Json(o)>>, <<Ws, Json(o), Ws>>} : o \in AuthStatusObjects}}

CallParseAuthStatus ==
    /\ fnCall.fn = "parseAuthStatus"
    /\ fnReturn = NotReturned
    /\ fnReturn' = ReturnedValue(parseAuthStatus(fnCall.output))
    /\ UNCHANGED <<options, other, fnCall, hVars, authStatus, calls, loginError, gVars, processState, rl, proc>>

CallProcessEvent ==
    /\ fnCall.fn = "processEvent"
    /\ fnReturn = NotReturned
    /\ fnReturn' = ReturnedValue(processEvent(fnCall.event, fnCall.modelInfo))
    /\ UNCHANGED <<options, other, fnCall, hVars, authStatus, calls, loginError, gVars, processState, rl, proc>>

InitFn ==
    /\ options = HandlerOptions(Undef, S1("api-key"), S1("sk-test-123"))
    /\ hpc = "init"
    /\ hOutcome = Running
    /\ chunks = <<>>
    /\ pending = <<>>
    /\ authStatus = NoStatus
    /\ calls = <<>>
    /\ gpc = "none"
    /\ gOutcome = Running
    /\ gEvent = Undef
    /\ yielded = <<>>
    /\ processState = NoProcessState
    /\ rl = NoRl
    /\ proc = NoProc
    /\ loopEndError = Undef
    /\ loginError = Undef
    /\ other = NotStarted
    /\ \/ fnCall \in RunProcessCalls
       \/ fnCall \in SpawnCalls
       \/ fnCall \in PromptCalls
       \/ \E e \in DialectEvents : fnCall = EventCall(e)
       \/ \E e \in UsageEvents : fnCall = EventCall(e)
       \/ \E e \in ToolCallEvents : fnCall = EventCall(e)
       \/ fnCall \in GetModelCalls
       \/ fnCall \in ParseCalls
    /\ fnReturn = NotReturned

NextFn ==
    \/ CallRunProcess
    \/ CallSpawn
    \/ CallBuildCodexPrompt
    \/ CallProcessEvent
    \/ CallGetModel
    \/ CallParseAuthStatus

SpecFn == InitFn /\ [][NextFn]_vars

(***************************************************************************)
(* Properties                                                              *)
(***************************************************************************)
\* C1: in every run of runCodexExec in which the subprocess was spawned,
\* however the consumption ended - the generator ran to its end, it threw,
\* or its consumer left it at a yield - the line reader is closed and the
\* subprocess has ended or has been sent the kill signal when the generator
\* is finished.
C1_CleanupOnEveryExit ==
    (gpc = "done" /\ proc.state # "none") => (rl.closed /\ (proc.state # "running" \/ proc.killed))

\* A consumer left the generator at a yield while the subprocess ran and
\* the stdin write had not happened: the finally block sent the signal.
C1_Witness ==
    /\ gpc = "done"
    /\ gOutcome = Closed
    /\ proc.state = "running"
    /\ ~proc.stdinDone
    /\ proc.killed
    /\ rl.closed

\* C2: once the 'error' callback has recorded a process-level error, no
\* event is yielded any more, also when the reader holds lines; the next
\* step the generator takes out of its wait for a line, or on a line it
\* holds, ends it with the recorded error.
C2_ErrorBeforeBufferedLines ==
    /\ [][Truthy(processState.error) => yielded' = yielded]_vars
    /\ [][(Truthy(processState.error) /\ gpc = "awaitLine" /\ (gpc' # gpc \/ Len(rl'.queue) < Len(rl.queue))) => (gpc' = "done" /\ gOutcome' = Raised(processState.error))]_vars

\* The generator raised the recorded error on a pull although the reader
\* still held a line.
C2_Witness ==
    /\ gpc = "done"
    /\ Truthy(processState.error)
    /\ gOutcome = Raised(processState.error)
    /\ rl.queue # <<>>

\* C3: once createMessage has raised, its stream is finished and the chunks
\* its caller has received never change again.
C3_NoChunkAfterRaise ==
    /\ [](hOutcome.k = "raised" => (hpc = "done" /\ pending = <<>>))
    /\ [][hOutcome.k = "raised" => (chunks' = chunks /\ hOutcome' = hOutcome)]_vars

\* createMessage raised on an error event after it had yielded the two
\* chunks of an earlier event.
C3_Witness ==
    /\ hOutcome = Raised(NewError(<<"Bad request">>))
    /\ Len(chunks) = 2
    /\ Len(yielded) = 2

\* The three conditions under which an event signals an error: its type is
\* a string containing "error", its status is "error", or its error field
\* is truthy.
SignalsError(event) ==
    \/ (IsString(Get(event, "type")) /\ Includes(Get(event, "type").v, <<"error">>))
    \/ Get(event, "status") = S1("error")
    \/ Truthy(Get(event, "error"))

\* C4: once createMessage has dealt with the event its runner handed it, if
\* the event signals an error then createMessage has raised and has yielded
\* no chunk, and if it signals none then createMessage has not raised
\* (unless its caller threw into it).
C4_ErrorEventsAlwaysRaise ==
    (yielded # <<>> /\ ~(hpc = "exec" /\ gpc = "yield")) =>
        IF SignalsError(yielded[Len(yielded)])
        THEN hOutcome.k = "raised" /\ chunks = <<>>
        ELSE hOutcome \in {Running, Closed, Raised(CallerError)}

\* C5: when the loop ended with no error recorded, none was recorded later
\* and the subprocess ended with an exit code, the generator returned if
\* the code is 0 and else raised the exit error, which carries the code and
\* the trimmed stderr output.
C5_ExitCodeError ==
    (gpc = "done" /\ loopEndError = Null /\ processState.error = Null /\ IsNumber(proc.exit)) =>
        IF proc.exit = Num(0)
        THEN gOutcome = Returned
        ELSE gOutcome = Raised(ExitError(proc.exit.v, Trim(processState.stderrLogs)))

\* Whether the error is the exit error of runCodexExec.
IsExitError(error) ==
    /\ IsString(Get(error, "message"))
    /\ Get(error, "message").v # <<>>
    /\ Head(Get(error, "message").v) = "Codex CLI process exited with code "

\* C6: when an error was recorded by the time the loop ended, the generator
\* raised that error, whatever the exit code; and it raised the exit error
\* only if no error was recorded when the loop ended.
C6_RecordedErrorBeforeExitError ==
    gpc = "done" =>
        /\ Truthy(loopEndError) => gOutcome = Raised(loopEndError)
        /\ (gOutcome.k = "raised" /\ IsExitError(gOutcome.error)) => loopEndError = Null

\* The subprocess reported an error and ended with exit code 1, and the
\* generator raised the error it had recorded.
C6_Witness ==
    /\ gpc = "done"
    /\ Truthy(loopEndError)
    /\ proc.exit = Num(1)
    /\ gOutcome = Raised(loopEndError)
    /\ ~IsExitError(loopEndError)

\* The spawn failed because the binary was not found.
BinaryNotFound ==
    /\ proc.spawnError # Undef
    /\ \/ Get(proc.spawnError, "code") = S1("ENOENT")
       \/ Includes(Get(proc.spawnError, "message").v, <<"ENOENT">>)

\* C7: when the spawn failed because the binary was not found, thrown by
\* the spawn or reported by the 'error' event, the generator, once ended,
\* has raised a CodexCliNotFoundError whose message names the configured
\* path, or "codex", and the installation URL, and it has yielded no event.
C7_BinaryNotFound ==
    (gpc = "done" /\ BinaryNotFound) =>
        /\ gOutcome.k = "raised"
        /\ Get(gOutcome.error, "name") = S1("CodexCliNotFoundError")
        /\ Includes(Get(gOutcome.error, "message").v, <<"Codex CLI not found at '", IF options.codexCliPath = Undef THEN "codex" ELSE options.codexCliPath.v[1], "'. Install it from ", "https://github.com/openai/codex">>)
        /\ yielded = <<>>
        /\ hOutcome = gOutcome

\* No path is configured, the failure came by the 'error' event and names
\* ENOENT in its message only.
C7_Witness ==
    /\ gpc = "done"
    /\ proc.state = "failed"
    /\ proc.errorFired
    /\ Get(proc.spawnError, "code") = Undef
    /\ options.codexCliPath = Undef
    /\ Get(gOutcome.error, "name") = S1("CodexCliNotFoundError")

\* The auth mode is the interactive session: "chatgpt" or unset.
Interactive == options.codexCliAuthMode \in {Undef, S1("chatgpt")}

\* C8: in the interactive mode the exec subprocess is started only after
\* the status call was made and ensureCodexLogin has ended - the status
\* says authenticated, or `codex login` was run; and when the status says
\* authenticated, `codex login` is never run.
C8_LoginBeforeExec ==
    Interactive =>
        /\ \A i \in 1..Len(calls) : calls[i].cmd = "exec" =>
              /\ i = Len(calls)
              /\ i > 1
              /\ calls[1].cmd = "status"
              /\ authStatus.source # "none"
              /\ (authStatus.authenticated \/ calls[i - 1].cmd = "login")
        /\ proc.state # "none" => (calls # <<>> /\ calls[Len(calls)].cmd = "exec")
        /\ authStatus.authenticated => \A i \in 1..Len(calls) : calls[i].cmd # "login"

\* No mode is configured, the status says authenticated and the exec
\* subprocess runs: the calls were the status call and the exec call.
C8_Witness ==
    /\ options.codexCliAuthMode = Undef
    /\ authStatus.authenticated
    /\ proc.state = "running"
    /\ Len(calls) = 2

\* C9: in the API-key mode no status, probe or login call is ever made, and
\* when the configured key is not empty the exec subprocess gets it as its
\* OPENAI_API_KEY.
C9_ApiKeyMode ==
    options.codexCliAuthMode = S1("api-key") =>
        /\ authStatus = NoStatus
        /\ hpc \notin {"status", "fallback", "login"}
        /\ \A i \in 1..Len(calls) :
              /\ calls[i].cmd = "exec"
              /\ (IsString(options.codexCliApiKey) /\ options.codexCliApiKey.v # <<>>) => calls[i].env["OPENAI_API_KEY"] = options.codexCliApiKey

\* The exec subprocess runs in the API-key mode with the key configured,
\* which is not the inherited one.
C9_Witness ==
    /\ options.codexCliAuthMode = S1("api-key")
    /\ options.codexCliApiKey = S1("sk-test-123")
    /\ ProcessEnv["OPENAI_API_KEY"] # options.codexCliApiKey
    /\ proc.state = "running"
    /\ calls # <<>>

\* C10: when `codex login` has failed, createMessage has raised the error
\* "Codex CLI login failed." followed by the captured error output, no exec
\* call was made, no subprocess was spawned and no chunk was yielded.
C10_LoginFailure ==
    loginError # Undef =>
        /\ Interactive
        /\ ~authStatus.authenticated
        /\ hpc = "done"
        /\ hOutcome = Raised(NewError(<<"Codex CLI login failed.">> \o (IF formatCodexCliError(loginError) = <<>> THEN <<>> ELSE <<" Error output: ">> \o formatCodexCliError(loginError))))
        /\ \A i \in 1..Len(calls) : calls[i].cmd # "exec"
        /\ gpc = "none"
        /\ proc.state = "none"
        /\ chunks = <<>>

\* `codex login` failed with output on stderr after the fallback probe had
\* said unauthenticated.
C10_Witness ==
    /\ loginError # Undef
    /\ formatCodexCliError(loginError) # <<>>
    /\ authStatus.source = "exec"
    /\ hOutcome.k = "raised"

\* The `auth status` invocation has ended.
StatusSettled == calls # <<>> /\ calls[1].cmd = "status" /\ calls[1].result.k # "pending"

\* The fallback probe was started.
FallbackRan == \E i \in 1..Len(calls) : calls[i].cmd = "fallback"

\* `codex login` was started.
LoginRan == \E i \in 1..Len(calls) : calls[i].cmd = "login"

\* The error text of a rejection, lowercased, says that the subcommand is
\* not supported.
SaysUnsupported(error) ==
    \E phrase \in {"unknown command", "unrecognized command", "unknown subcommand", "invalid choice"} :
        Includes(ToLowerCase(formatCodexCliError(error)), <<phrase>>)

\* The error text attached to a status: the text of the rejection, or the
\* given default when the rejection has none.
AttachedText(error, default) ==
    IF formatCodexCliError(error) # <<>> THEN Str(formatCodexCliError(error)) ELSE S1(default)

\* C11: the fallback probe is started if and only if the `auth status`
\* invocation has failed with an error text that says the subcommand is not
\* supported; after any other failure the status is unauthenticated, of
\* source "auth-status", with the error text attached; after a success no
\* fallback probe is started.
C11_FallbackIffUnsupported ==
    /\ FallbackRan => StatusSettled
    /\ StatusSettled =>
          /\ FallbackRan <=> (calls[1].result.k = "failed" /\ SaysUnsupported(calls[1].result.error))
          /\ (calls[1].result.k = "failed" /\ ~SaysUnsupported(calls[1].result.error)) =>
                authStatus = [authenticated |-> FALSE, source |-> "auth-status", error |-> AttachedText(calls[1].result.error, "Codex CLI auth status check failed.")]
          /\ calls[1].result.k = "ok" => authStatus.source = "auth-status"

\* The status call failed with "UNKNOWN SUBCOMMAND" as its cause, in upper
\* case, and the fallback probe was started.
C11_Witness ==
    /\ StatusSettled
    /\ calls[1].result.error = Obj([cause |-> Str(<<"UNKNOWN SUBCOMMAND">>)])
    /\ Len(calls) = 2
    /\ calls[2].cmd = "fallback"
    /\ hpc = "fallback"

\* C12: the fallback probe is `exec --json` given "ping"; once it has ended
\* the status is of source "exec", authenticated when the probe succeeded,
\* and unauthenticated with the failure text attached when it failed.
C12_FallbackProbeStatus ==
    \A i \in 1..Len(calls) : calls[i].cmd = "fallback" =>
        /\ calls[i].args = <<S1("exec"), S1("--json")>>
        /\ calls[i].input = S1("ping")
        /\ calls[i].result.k = "pending" => authStatus = NoStatus
        /\ calls[i].result.k = "ok" => authStatus = [authenticated |-> TRUE, source |-> "exec", error |-> Undef]
        /\ calls[i].result.k = "failed" =>
              authStatus = [authenticated |-> FALSE, source |-> "exec", error |-> AttachedText(calls[i].result.error, "Codex CLI auth check failed.")]

\* The fallback probe failed saying "not logged in": the status carries it.
C12_Witness ==
    /\ Len(calls) >= 2
    /\ calls[2].cmd = "fallback"
    /\ calls[2].result.k = "failed"
    /\ authStatus.source = "exec"
    /\ ~authStatus.authenticated
    /\ authStatus.error = Str(<<"not logged in">>)

\* The output carries no signal: it is empty, it is no JSON, or it is JSON
\* with no boolean in authenticated, logged_in, loggedIn and no status
\* string that says (un)auth or signed-in/out.
NoSignal(stdout) ==
    LET parsed == JsonParse(stdout)
        v == parsed.value
        status == Get(v, "status")
    IN \/ TrimText(stdout) = <<>>
       \/ ~parsed.ok
       \/ ~IsObject(v)
       \/ /\ \A k \in {"authenticated", "logged_in", "loggedIn"} : ~IsBoolean(Get(v, k))
          /\ \/ ~IsString(status)
             \/ \A word \in {"auth", "signed-in", "signed-out"} : ~Includes(ToLowerCase(status.v), <<word>>)

\* C13: when the `auth status` invocation succeeded with an output that
\* carries no signal, the status is authenticated, of source "auth-status",
\* and neither the fallback probe nor `codex login` is started.
C13_NoSignalMeansAuthenticated ==
    (StatusSettled /\ calls[1].result.k = "ok" /\ NoSignal(calls[1].result.stdout)) =>
        /\ authStatus = [authenticated |-> TRUE, source |-> "auth-status", error |-> Undef]
        /\ ~FallbackRan
        /\ ~LoginRan
        /\ hpc \notin {"status", "fallback", "login"}

\* The status call printed {"status": "ok"} and ensureCodexLogin returned.
C13_Witness ==
    /\ StatusSettled
    /\ calls[1].result.stdout = <<Json(Obj([status |-> S1("ok")]))>>
    /\ authStatus.authenticated
    /\ hpc = "exec"

\* C14: getCodexAuthStatus does not raise: while it runs createMessage has
\* not ended; once the status call has ended, and the fallback probe if it
\* was started, there is a status of one of the two sources; a failure of
\* the last probing call gives an unauthenticated status with a non-empty
\* error text; and what raises afterwards is `codex login` alone.
C14_AuthStatusNeverRaises ==
    /\ hpc \in {"status", "fallback"} => (hOutcome = Running /\ authStatus = NoStatus)
    /\ (StatusSettled /\ hpc # "fallback") =>
          /\ authStatus.source \in {"auth-status", "exec"}
          /\ authStatus.authenticated \in BOOLEAN
          /\ LET probes == {i \in 1..Len(calls) : calls[i].cmd \in {"status", "fallback"}}
                 last == CHOOSE i \in probes : \A j \in probes : j <= i
             IN calls[last].result.k = "failed" =>
                   (~authStatus.authenticated /\ IsString(authStatus.error) /\ authStatus.error.v # <<>>)
    /\ (Interactive /\ hOutcome.k = "raised") => (LoginRan /\ calls[Len(calls)].cmd = "login")

\* The status call failed with nothing but blank stderr, no fallback probe
\* was started, and the status carries the default text.
C14_Witness ==
    /\ StatusSettled
    /\ calls[1].result.error = Obj([stderr |-> Str(<<" ">>)])
    /\ ~FallbackRan
    /\ authStatus.error = S1("Codex CLI auth status check failed.")
    /\ hpc = "login"

\* C15: ensureCodexLogin starts with the status call; when the status says
\* authenticated it starts no `codex login` and returns; otherwise it
\* starts `codex login` once, probes no status afterwards, returns when the
\* login succeeded and raises the login error with the error text when it
\* failed.
C15_EnsureLogin ==
    Interactive =>
        /\ calls # <<>> => calls[1].cmd = "status"
        /\ Cardinality({i \in 1..Len(calls) : calls[i].cmd = "login"}) <= 1
        /\ LoginRan <=> (authStatus.source # "none" /\ ~authStatus.authenticated)
        /\ authStatus.authenticated => (hpc \notin {"status", "fallback", "login"} /\ loginError = Undef)
        /\ \A i \in 1..Len(calls) : calls[i].cmd = "login" =>
              /\ \A j \in (i + 1)..Len(calls) : calls[j].cmd = "exec"
              /\ calls[i].result.k = "pending" <=> hpc = "login"
              /\ calls[i].result.k = "ok" => (hpc \notin {"status", "fallback", "login"} /\ loginError = Undef)
              /\ calls[i].result.k = "failed" =>
                    /\ hpc = "done"
                    /\ i = Len(calls)
                    /\ hOutcome = Raised(NewError(<<"Codex CLI login failed.">> \o (IF formatCodexCliError(calls[i].result.error) = <<>> THEN <<>> ELSE <<" Error output: ">> \o formatCodexCliError(calls[i].result.error))))

\* The status said unauthenticated, `codex login` succeeded and
\* ensureCodexLogin returned: the status call and the login were all it ran.
C15_Witness ==
    /\ Interactive
    /\ Len(calls) = 2
    /\ calls[2].cmd = "login"
    /\ calls[2].result.k = "ok"
    /\ ~authStatus.authenticated
    /\ hpc = "exec"
    /\ hOutcome = Running

\* The generator takes the line at the head of the reader's buffer while no
\* error is recorded.
ConsumesLine ==
    /\ hpc = "exec"
    /\ gpc = "awaitLine"
    /\ rl.queue # <<>>
    /\ ~Truthy(processState.error)
    /\ rl'.queue = Tail(rl.queue)

\* The line is blank, or it is no JSON text: it holds characters that are
\* no JSON, or more than one JSON value.
BlankOrMalformed(line) ==
    \/ \A i \in 1..Len(line) : line[i].k = "ws"
    \/ \E i \in 1..Len(line) : line[i].k = "junk"
    \/ Cardinality({i \in 1..Len(line) : line[i].k = "json"}) > 1

\* C16: when the generator takes a line that is blank or no JSON (no error
\* being recorded), it yields no event and raises nothing, it goes on
\* waiting for the next line, and nothing but the reader's buffer changes:
\* the same line taken again finds the same state.
C16_MalformedLineSkipped ==
    [][(ConsumesLine /\ BlankOrMalformed(Head(rl.queue))) =>
          /\ yielded' = yielded
          /\ gpc' = "awaitLine"
          /\ rl'.closed = rl.closed
          /\ UNCHANGED <<options, other, fnCall, fnReturn, hpc, hOutcome, chunks, pending, authStatus, calls, gOutcome, gEvent, processState, proc, loopEndError, loginError>>]_vars

\* Two lines were written, each blank or no JSON, the generator took both
\* and returned: no event, no error.
C16_Witness ==
    /\ gpc = "done"
    /\ gOutcome = Returned
    /\ proc.nLines = 2
    /\ proc.exit = Num(0)
    /\ yielded = <<>>
    /\ rl.queue = <<>>

\* C17: while no error is recorded, the lines are taken in the order they
\* were written; a line that is one JSON value yields that value as one
\* event, appended to the events yielded; and the events yielded change in
\* no other way.
C17_LinesInOrder ==
    /\ [][(ConsumesLine /\ JsonParse(Head(rl.queue)).ok) => yielded' = Append(yielded, JsonParse(Head(rl.queue)).value)]_vars
    /\ [][(ConsumesLine /\ ~JsonParse(Head(rl.queue)).ok) => yielded' = yielded]_vars
    /\ [][yielded' # yielded => (rl.queue # <<>> /\ rl'.queue = Tail(rl.queue))]_vars
    /\ [][rl'.queue # rl.queue => (\/ (rl.queue # <<>> /\ rl'.queue = Tail(rl.queue))
                                    \/ (Len(rl'.queue) = Len(rl.queue) + 1 /\ SubSeq(rl'.queue, 1, Len(rl.queue)) = rl.queue)
                                    \/ (gpc = "start" /\ rl'.queue = <<>>))]_vars

\* The statement of C17 for the lines whose JSON value is truthy.
C17_TruthyLinesInOrder ==
    /\ [][(ConsumesLine /\ JsonParse(Head(rl.queue)).ok /\ Truthy(JsonParse(Head(rl.queue)).value)) => yielded' = Append(yielded, JsonParse(Head(rl.queue)).value)]_vars
    /\ [][(ConsumesLine /\ ~(JsonParse(Head(rl.queue)).ok /\ Truthy(JsonParse(Head(rl.queue)).value))) => yielded' = yielded]_vars
    /\ [][yielded' # yielded => (rl.queue # <<>> /\ rl'.queue = Tail(rl.queue))]_vars

\* The positions in the log of the invocations that run the main
\* `codex exec`.
ExecCalls == {i \in 1..Len(calls) : calls[i].cmd = "exec"}

\* `codex login` was run and failed: the authentication was not resolved.
AuthFailed == \E i \in 1..Len(calls) : calls[i].cmd = "login" /\ calls[i].result.k = "failed"

\* C18: the main `codex exec` is spawned at most once in a createMessage;
\* it has been spawned exactly once as soon as runCodexExec has run its
\* first step, and not before; a createMessage that has ended has spawned
\* it exactly once unless the login failed, and then never; and no
\* subprocess at all is spawned after it, whatever way it or the stream
\* ended.
C18_OneExecNoRetry ==
    /\ Cardinality(ExecCalls) <= 1
    /\ (gpc \notin {"none", "start"}) <=> (Cardinality(ExecCalls) = 1)
    /\ hpc = "done" => ((Cardinality(ExecCalls) = 1) <=> ~AuthFailed)
    /\ ExecCalls # {} => calls[Len(calls)].cmd = "exec"

\* In ChatGPT mode the subprocess exited with code 1 and both runCodexExec
\* and createMessage have ended with an error: one exec call, the last of
\* the log.
C18_Witness ==
    /\ hpc = "done"
    /\ gpc = "done"
    /\ gOutcome.k = "raised"
    /\ hOutcome.k = "raised"
    /\ proc.exit = Num(1)
    /\ Len(calls) >= 2
    /\ Cardinality(ExecCalls) = 1

\* C20: when the consumer keeps pulling and the subprocess ends (or reports
\* an error), a runCodexExec that was started eventually finishes; and once
\* it has finished it stays finished, with the outcome it finished with, and
\* yields no further event, whatever its reader still holds.
C20_RunFinishes ==
    /\ (gpc = "start") ~> (gpc = "done" /\ gOutcome.k \in {"returned", "raised", "closed"})
    /\ [][gpc = "done" => (gpc' = "done" /\ gOutcome' = gOutcome /\ yielded' = yielded /\ gEvent' = gEvent /\ chunks' = chunks)]_vars

\* The run has returned after it yielded an event, the subprocess having
\* exited with code 0 and 'close' emitted.
C20_Witness ==
    /\ gpc = "done"
    /\ gOutcome = Returned
    /\ Len(yielded) = 1
    /\ proc.closeFired
    /\ proc.exit = Num(0)

\* What an invocation holds is what its own subprocess did: the recorded
\* error is the one its 'error' event reported, the stderr buffer is empty
\* until its stderr wrote, the exit code is the one its 'close' reported,
\* its reader is closed only by the end of its stdout, by its 'error' or by
\* its own cleanup, its subprocess is killed only by its own cleanup, it has
\* yielded and buffers no more lines than its subprocess wrote, and it ended
\* with an error only if its subprocess failed, with one of the errors that
\* failure gives.
OwnState(r) ==
    /\ Truthy(r.processState.error) <=> r.proc.errorFired
    /\ (r.proc.errorFired /\ r.proc.state = "failed") => r.processState.error = recordProcessError(codexPathOf(options.codexCliPath), r.proc.spawnError)
    /\ (r.processState.stderrLogs = <<>>) <=> (r.proc.nStderr = 0)
    /\ r.processState.exitCode = (IF ~r.proc.closeFired THEN Null ELSE IF r.proc.state = "failed" THEN Num(-2) ELSE r.proc.exit)
    /\ r.rl.closed => (~r.proc.stdoutOpen \/ r.proc.errorFired \/ r.gpc = "done")
    /\ r.proc.killed => r.gpc = "done"
    /\ Len(r.yielded) + Len(r.rl.queue) <= r.proc.nLines
    /\ r.gOutcome.k = "raised" =>
         /\ r.proc.errorFired \/ r.proc.exit = Num(1) \/ (r.proc.state = "none" /\ r.proc.spawnError # Undef)
         /\ r.gOutcome.error \in {r.processState.error, ExecaError(r.proc), rethrowSpawnError(codexPathOf(options.codexCliPath), r.proc.spawnError)}
    /\ r.gOutcome = Returned => (r.proc.exit = Num(0) /\ ~r.proc.errorFired)

C21_PromptWrittenOnce ==
    proc.stdinDone =>
        /\ proc.stdinError # "type"
        /\ proc.stdinError = "none" => (proc.stdinWritten = <<ExecCall(options).input>> /\ IsString(ExecCall(options).input) /\ proc.stdinEnded)
        /\ proc.stdinError # "none" => (proc.killed \/ proc.state \in {"exited", "failed"})

\* The half of C21 about failures: a write that failed, whichever way,
\* leaves no running subprocess unkilled.
C21_WriteFailureKills ==
    (proc.stdinDone /\ proc.stdinError # "none") => (proc.killed \/ proc.state \in {"exited", "failed"})

\* What happens in every run: the prompt is an object, write throws, the
\* subprocess has been given nothing and its stdin is not ended.
C21_PromptNeverWritten ==
    proc.stdinDone => (proc.stdinError = "type" /\ proc.stdinWritten = <<>> /\ ~proc.stdinEnded /\ IsObject(ExecCall(options).input))

\* The flag stands among the arguments after the two base ones.
HasFlag(args, flag) == \E i \in 3..Len(args) : args[i] = S1(flag)

\* The flag stands there followed by the value.
HasFlagWith(args, flag, value) == \E i \in 3..(Len(args) - 1) : args[i] = S1(flag) /\ args[i + 1] = value

\* An option that is a string with something in it besides white space.
NonBlank(x) == IsString(x) /\ Trim(x.v) # <<>>

\* An option that is given: a string that is not empty.
Present(x) == IsString(x) /\ x.v # <<>>

RunProcessReturned == fnCall.fn = "runProcess" /\ fnReturn # NotReturned

\* C22, as amended: the arguments start with 'exec', '--json'; each of
\* '--model', '--output-schema', '--sandbox' is there exactly when its
\* option is not blank after trimming, followed by the trimmed option;
\* '--full-auto' is there exactly when fullAuto is true; and there is
\* nothing else.
C22_ArgsTrimmed ==
    RunProcessReturned =>
        LET args == fnReturn.value
        IN /\ Len(args) >= 2
           /\ args[1] = S1("exec")
           /\ args[2] = S1("--json")
           /\ HasFlag(args, "--model") <=> NonBlank(fnCall.modelId)
           /\ NonBlank(fnCall.modelId) => HasFlagWith(args, "--model", Str(Trim(fnCall.modelId.v)))
           /\ HasFlag(args, "--output-schema") <=> NonBlank(fnCall.outputSchema)
           /\ NonBlank(fnCall.outputSchema) => HasFlagWith(args, "--output-schema", Str(Trim(fnCall.outputSchema.v)))
           /\ HasFlag(args, "--sandbox") <=> NonBlank(fnCall.sandbox)
           /\ NonBlank(fnCall.sandbox) => HasFlagWith(args, "--sandbox", Str(Trim(fnCall.sandbox.v)))
           /\ HasFlag(args, "--full-auto") <=> (fnCall.fullAuto = Bool(TRUE))
           /\ Len(args) = 2 + (IF NonBlank(fnCall.modelId) THEN 2 ELSE 0) + (IF NonBlank(fnCall.outputSchema) THEN 2 ELSE 0) + (IF NonBlank(fnCall.sandbox) THEN 2 ELSE 0) + (IF fnCall.fullAuto = Bool(TRUE) THEN 1 ELSE 0)

\* C22, as stated: the model flag as above, but '--output-schema' and
\* '--sandbox' exactly when the option is given, followed by the option.
C22_ArgsAsStated ==
    RunProcessReturned =>
        LET args == fnReturn.value
        IN /\ Len(args) >= 2
           /\ args[1] = S1("exec")
           /\ args[2] = S1("--json")
           /\ HasFlag(args, "--model") <=> NonBlank(fnCall.modelId)
           /\ NonBlank(fnCall.modelId) => HasFlagWith(args, "--model", Str(Trim(fnCall.modelId.v)))
           /\ HasFlag(args, "--output-schema") <=> Present(fnCall.outputSchema)
           /\ Present(fnCall.outputSchema) => HasFlagWith(args, "--output-schema", fnCall.outputSchema)
           /\ HasFlag(args, "--sandbox") <=> Present(fnCall.sandbox)
           /\ Present(fnCall.sandbox) => HasFlagWith(args, "--sandbox", fnCall.sandbox)
           /\ HasFlag(args, "--full-auto") <=> (fnCall.fullAuto = Bool(TRUE))

\* All four options are given, the sandbox mode with white space after it:
\* seven arguments follow the base ones.
C22_Witness ==
    /\ RunProcessReturned
    /\ fnCall.sandbox = Str(<<"docker", " ">>)
    /\ fnCall.fullAuto = Bool(TRUE)
    /\ Len(fnReturn.value) = 9

\* The variables the caller supplied, none when it supplied no object.
Overrides(env) == IF IsObject(env) THEN env.v ELSE <<>>

\* C23: the environment a subprocess is given (status probe, fallback probe,
\* login, main exec) holds the inherited variables and the caller's: each
\* variable the caller names has the caller's value, each inherited variable
\* the caller does not name has its inherited value, and there is no other.
C23_MergedEnv ==
    (fnCall.fn = "spawn" /\ fnReturn # NotReturned) =>
        LET merged == fnReturn.value
            over == Overrides(fnCall.env)
        IN /\ DOMAIN merged = (DOMAIN ProcessEnv) \cup (DOMAIN over)
           /\ \A k \in DOMAIN over : merged[k] = over[k]
           /\ \A k \in (DOMAIN ProcessEnv) \ (DOMAIN over) : merged[k] = ProcessEnv[k]

\* `codex login` is spawned for a caller that supplies a PATH of its own and
\* a variable that is not inherited: three variables, the inherited key
\* among them.
C23_Witness ==
    /\ fnCall.fn = "spawn"
    /\ fnCall.cmd = "login"
    /\ fnReturn # NotReturned
    /\ fnCall.env = Obj([PATH |-> S1("/opt/bin"), CODEX_HOME |-> S1("/home/codex")])
    /\ fnReturn.value["PATH"] = S1("/opt/bin")
    /\ fnReturn.value["OPENAI_API_KEY"] = ProcessEnv["OPENAI_API_KEY"]
    /\ Cardinality(DOMAIN fnReturn.value) = 3

PromptReturned == fnCall.fn = "buildCodexPrompt" /\ fnReturn # NotReturned

\* The messages given and the messages of the payload.
InMessages == fnCall.messages

OutMessages == Get(fnReturn.value, "messages").v

TypeOf(block) == Get(block, "type")

\* The kinds of block the payload has a form for, images included (as
\* placeholders).
ConvertedTypes == {S1("text"), S1("image"), S1("tool_use"), S1("tool_result")}

\* The positions, in order, of the blocks of those kinds.
ConvertedPositions(blocks) ==
    LET OfKind(p) == TypeOf(blocks[p]) \in ConvertedTypes
    IN SelectSeq([p \in 1..Len(blocks) |-> p], OfKind)

\* The text of the placeholder of an image: its source kind and its media
\* type, "unknown" for what the image does not say.
PlaceholderText(image) ==
    LET source == Get(image, "source")
        kind == IF IsObject(source) /\ "type" \in DOMAIN source.v THEN source.v["type"].v ELSE <<"unknown">>
        media == IF IsObject(source) /\ "media_type" \in DOMAIN source.v THEN source.v["media_type"].v ELSE <<"unknown">>
    IN Str(<<"[Image (">> \o kind \o <<"): ">> \o media \o <<" not supported by Codex CLI]">>)

\* No block of the sequence is an image, nor is any block nested in one.
NoImageIn(blocks) ==
    \A j \in 1..Len(blocks) :
        /\ TypeOf(blocks[j]) # S1("image")
        /\ IsArray(Get(blocks[j], "content")) => \A q \in 1..Len(Get(blocks[j], "content").v) : TypeOf(Get(blocks[j], "content").v[q]) # S1("image")

\* The images among the blocks, the positions of the nested ones included.
NestedImages(block) ==
    IF IsArray(Get(block, "content"))
    THEN {q \in 1..Len(Get(block, "content").v) : TypeOf(Get(block, "content").v[q]) = S1("image")}
    ELSE {}

\* The text blocks of a block's nested content that are placeholders.
NestedPlaceholders(block) ==
    IF IsArray(Get(block, "content"))
    THEN {q \in 1..Len(Get(block, "content").v) : \E image \in PromptBlocks : TypeOf(image) = S1("image") /\ Get(Get(block, "content").v[q], "text") = PlaceholderText(image)}
    ELSE {}

\* What holds of the images: the payload holds no image block, at the top
\* of a content or nested in a tool result, and each image block at the top
\* of a content is replaced, at its place among the converted blocks, by
\* one text block stating its source kind and media type.
TopLevelImagesReplaced ==
    PromptReturned =>
        \A m \in 1..Len(InMessages) :
            IsArray(Get(InMessages[m], "content")) =>
                LET inBlocks == Get(InMessages[m], "content").v
                    outBlocks == Get(OutMessages[m], "content").v
                    at == ConvertedPositions(inBlocks)
                IN /\ NoImageIn(outBlocks)
                   /\ Len(outBlocks) = Len(at)
                   /\ \A j \in 1..Len(at) :
                        TypeOf(inBlocks[at[j]]) = S1("image") => outBlocks[j] = Obj([type |-> S1("text"), text |-> PlaceholderText(inBlocks[at[j]])])

\* C24: the payload holds no image block at any depth, and each image block
\* of the input has its one placeholder in the payload, stating its source
\* kind and media type: at its place among the converted blocks when it
\* stands at the top of a content, in the nested content of the converted
\* tool result when it is nested in a tool result.
C24_EveryImageReplaced ==
    PromptReturned =>
        \A m \in 1..Len(InMessages) :
            IsArray(Get(InMessages[m], "content")) =>
                LET inBlocks == Get(InMessages[m], "content").v
                    outBlocks == Get(OutMessages[m], "content").v
                    at == ConvertedPositions(inBlocks)
                IN /\ NoImageIn(outBlocks)
                   /\ Len(outBlocks) = Len(at)
                   /\ \A j \in 1..Len(at) :
                        /\ TypeOf(inBlocks[at[j]]) = S1("image") => outBlocks[j] = Obj([type |-> S1("text"), text |-> PlaceholderText(inBlocks[at[j]])])
                        /\ Cardinality(NestedPlaceholders(outBlocks[j])) = Cardinality(NestedImages(inBlocks[at[j]]))

\* The text blocks among the blocks, in order, each as {type, text}.
TextsOf(blocks) ==
    LET IsText(b) == TypeOf(b) = S1("text")
        texts == SelectSeq(blocks, IsText)
    IN [q \in 1..Len(texts) |-> Obj([type |-> S1("text"), text |-> Get(texts[q], "text")])]

\* What a block of the input is in the payload: a text block keeps its
\* text, a tool use its id, name and input, a tool result its tool_use_id
\* and its content when that is a string, else the text blocks nested in
\* it, in order.
ConvertedAs(inBlock, outBlock) ==
    CASE TypeOf(inBlock) = S1("text") ->
            outBlock = Obj([type |-> S1("text"), text |-> Get(inBlock, "text")])
      [] TypeOf(inBlock) = S1("tool_use") ->
            outBlock = Obj([type |-> S1("tool_use"), id |-> Get(inBlock, "id"), name |-> Get(inBlock, "name"), input |-> Get(inBlock, "input")])
      [] TypeOf(inBlock) = S1("tool_result") ->
            /\ DOMAIN outBlock.v = {"type", "tool_use_id", "content"}
            /\ TypeOf(outBlock) = S1("tool_result")
            /\ Get(outBlock, "tool_use_id") = Get(inBlock, "tool_use_id")
            /\ IF IsString(Get(inBlock, "content"))
               THEN Get(outBlock, "content") = Get(inBlock, "content")
               ELSE Get(outBlock, "content") = Arr(TextsOf(Get(inBlock, "content").v))
      [] OTHER -> TypeOf(outBlock) = S1("text")

\* C25: the payload has one message for each message given, in order and
\* with its role; a string content is the same string; a content of blocks
\* holds, in the order of the input, one block for each input block of a
\* kind the payload has a form for, converted as said above.
C25_MessagesConverted ==
    PromptReturned =>
        /\ Len(OutMessages) = Len(InMessages)
        /\ \A m \in 1..Len(InMessages) :
              /\ DOMAIN OutMessages[m].v = {"role", "content"}
              /\ Get(OutMessages[m], "role") = Get(InMessages[m], "role")
              /\ IsString(Get(InMessages[m], "content")) => Get(OutMessages[m], "content") = Get(InMessages[m], "content")
              /\ IsArray(Get(InMessages[m], "content")) =>
                    LET inBlocks == Get(InMessages[m], "content").v
                        outBlocks == Get(OutMessages[m], "content").v
                        at == ConvertedPositions(inBlocks)
                    IN /\ IsArray(Get(OutMessages[m], "content"))
                       /\ Len(outBlocks) = Len(at)
                       /\ \A j \in 1..Len(at) : ConvertedAs(inBlocks[at[j]], outBlocks[j])

\* A conversation of three messages whose last one holds a tool result with
\* nested blocks, then a tool use: the converted tool result holds the two
\* nested texts, the tool use follows it.
C25_Witness ==
    /\ PromptReturned
    /\ Len(InMessages) = 3
    /\ Len(OutMessages) = 3
    /\ Get(OutMessages[2], "role") = S1("assistant")
    /\ Len(Get(OutMessages[3], "content").v) = 2
    /\ Get(Get(OutMessages[3], "content").v[1], "content") = Arr(<<Obj([type |-> S1("text"), text |-> S1("one")]), Obj([type |-> S1("text"), text |-> S1("two")])>>)
    /\ TypeOf(Get(OutMessages[3], "content").v[2]) = S1("tool_use")

\* processEvent has returned the chunks of one event.
EventReturned == fnCall.fn = "processEvent" /\ fnReturn # NotReturned

\* What holds of C26: an event that is no output item with a "message"
\* item yields at most one chunk.
AtMostOneChunkOutsideMessageItems ==
    (EventReturned /\ ~(OptGet(fnCall.event, "type") \in OutputItemTypes /\ OptGet(OptGet(fnCall.event, "item"), "type") = S1("message")))
        => Len(fnReturn.value) <= 1

\* C26: for every raw event, processEvent yields zero or one chunk: no
\* single event produces more than one chunk.
C26_AtMostOneChunk == EventReturned => Len(fnReturn.value) <= 1

\* The first of the named fields of a usage object that is neither
\* undefined nor null, and zero when there is none.
RECURSIVE FirstField(_, _)
FirstField(usage, names) ==
    IF names = <<>> THEN Num(0)
    ELSE IF ~Nullish(Get(usage, Head(names))) THEN Get(usage, Head(names))
    ELSE FirstField(usage, Tail(names))

\* The details of the input tokens of a usage object, under either name.
DetailsOf(usage) == FirstField(usage, <<"input_tokens_details", "prompt_tokens_details">>)

DetailOf(usage, name) == IF IsObject(DetailsOf(usage)) THEN FirstField(DetailsOf(usage), <<name>>) ELSE Num(0)

\* The counts a usage object resolves to.
ResolvedInput(usage) ==
    LET flat == FirstField(usage, <<"input_tokens", "prompt_tokens">>)
    IN IF flat = Num(0) /\ (DetailOf(usage, "cached_tokens").v > 0 \/ DetailOf(usage, "cache_miss_tokens").v > 0)
       THEN Num(DetailOf(usage, "cached_tokens").v + DetailOf(usage, "cache_miss_tokens").v)
       ELSE flat

ResolvedOutput(usage) == FirstField(usage, <<"output_tokens", "completion_tokens">>)

ResolvedCacheWrite(usage) == FirstField(usage, <<"cache_creation_input_tokens", "cache_write_tokens">>)

ResolvedCacheRead(usage) ==
    LET named == FirstField(usage, <<"cache_read_input_tokens", "cache_read_tokens", "cached_tokens">>)
    IN IF named = Num(0) /\ \A n \in {"cache_read_input_tokens", "cache_read_tokens", "cached_tokens"} : Nullish(Get(usage, n))
       THEN DetailOf(usage, "cached_tokens")
       ELSE named

AbsentWhenZero(count) == IF count = Num(0) THEN Undef ELSE count

\* The usage of an event: that of `response`, else the one at the top.
UsageOfEvent(event) ==
    LET nested == OptGet(OptGet(event, "response"), "usage")
    IN IF Truthy(nested) THEN nested ELSE OptGet(event, "usage")

\* processEvent has returned from a response.completed / response.done event.
CompletedReturned == EventReturned /\ OptGet(fnCall.event, "type") \in CompletedTypes

\* C27: a response.completed or response.done event with a usage object
\* (that of `response`, else the top-level one) yields exactly one usage
\* chunk, with the input and output counts the usage object resolves to,
\* with cacheWriteTokens and cacheReadTokens absent when they resolve to
\* zero, and with totalCost the cost function applied to the descriptor
\* and the resolved input, output, cache-write and cache-read counts,
\* whatever field the usage object holds; with no usage object the event
\* yields nothing.
C27_UsageChunk ==
    CompletedReturned =>
        LET usage == UsageOfEvent(fnCall.event)
        IN /\ IsObject(usage) =>
                /\ Len(fnReturn.value) = 1
                /\ fnReturn.value[1].type = "usage"
                /\ fnReturn.value[1].inputTokens = ResolvedInput(usage)
                /\ fnReturn.value[1].outputTokens = ResolvedOutput(usage)
                /\ fnReturn.value[1].cacheWriteTokens = AbsentWhenZero(ResolvedCacheWrite(usage))
                /\ fnReturn.value[1].cacheReadTokens = AbsentWhenZero(ResolvedCacheRead(usage))
                /\ fnReturn.value[1].cacheWriteTokens # Num(0)
                /\ fnReturn.value[1].cacheReadTokens # Num(0)
                /\ fnReturn.value[1].totalCost = calculateApiCostOpenAI(fnCall.modelInfo, ResolvedInput(usage), ResolvedOutput(usage), ResolvedCacheWrite(usage), ResolvedCacheRead(usage))
           /\ Nullish(usage) => fnReturn.value = <<>>

\* A completed event whose usage sits in `response`, names a cost of its
\* own, resolves its input from the details and its cache-write count to
\* zero, has yielded its chunk.
C27_Witness ==
    /\ CompletedReturned
    /\ IsObject(OptGet(OptGet(fnCall.event, "response"), "usage"))
    /\ Get(UsageOfEvent(fnCall.event), "totalCost") = Num(99)
    /\ Get(UsageOfEvent(fnCall.event), "input_tokens") = Num(0)
    /\ ResolvedInput(UsageOfEvent(fnCall.event)) = Num(7)
    /\ Get(UsageOfEvent(fnCall.event), "cache_creation_input_tokens") = Num(0)
    /\ Len(fnReturn.value) = 1
    /\ fnReturn.value[1].cacheWriteTokens = Undef
    /\ fnReturn.value[1].cacheReadTokens = Num(3)

\* A non-negative integer.
IsCount(x) == IsNumber(x) /\ x.v \in Nat

\* processEvent has returned one usage chunk.
UsageChunkReturned == EventReturned /\ Len(fnReturn.value) = 1 /\ fnReturn.value[1].type = "usage"

\* The counts of the returned usage chunk that are present.
CountsOfChunk ==
    {fnReturn.value[1].inputTokens, fnReturn.value[1].outputTokens}
        \cup ({fnReturn.value[1].cacheWriteTokens, fnReturn.value[1].cacheReadTokens, fnReturn.value[1].reasoningTokens} \ {Undef})

\* The flat count fields of a usage object.
FlatCountFields == {"input_tokens", "prompt_tokens", "output_tokens", "completion_tokens", "cache_creation_input_tokens", "cache_write_tokens", "cache_read_input_tokens", "cache_read_tokens", "cached_tokens"}

\* What holds of C28: the counts of the chunk are non-negative integers
\* when the flat count fields of the usage object that are present are.
CountsKeptNatural ==
    (UsageChunkReturned /\ \A n \in FlatCountFields : LET x == Get(UsageOfEvent(fnCall.event), n) IN Nullish(x) \/ IsCount(x))
        => \A c \in CountsOfChunk : IsCount(c)

\* C28: the token counts of an emitted usage chunk (inputTokens,
\* outputTokens and, when present, cacheWriteTokens, cacheReadTokens,
\* reasoningTokens) are non-negative integers, whatever the usage object.
C28_CountsAreNaturals == UsageChunkReturned => \A c \in CountsOfChunk : IsCount(c)

\* getModel has returned for the configured model id.
GetModelReturned == fnCall.fn = "getModel" /\ fnReturn # NotReturned

\* The model the main process is given: the value after --model in the
\* arguments of the exec call of a handler configured with the model id.
ModelPassed(apiModelId) ==
    LET args == ExecCall([options EXCEPT !.apiModelId = apiModelId]).args
        at == CHOOSE i \in 1..(Len(args) - 1) : args[i] = S1("--model")
    IN args[at + 1]

\* The resolution of the model C29 states, for a configured id.
ResolvedAsStated(apiModelId) ==
    IF ~NonBlank(apiModelId)
    THEN /\ fnReturn.value.id = codexCliDefaultModelId
         /\ fnReturn.value.info = modelInfoOf(codexCliDefaultModelId)
    ELSE /\ fnReturn.value.id = Str(Trim(apiModelId.v))
         /\ fnReturn.value.info = IF Str(Trim(apiModelId.v)) \in codexCliModels
                                  THEN modelInfoOf(Str(Trim(apiModelId.v)))
                                  ELSE modelInfoOf(codexCliDefaultModelId)

\* What holds of C29: the resolved id is as stated and is the model passed
\* to the main process, and the descriptor is as stated for every id that
\* is no name inherited from Object.prototype.
ResolvedOutsideInheritedNames ==
    GetModelReturned =>
        /\ fnReturn.value.id = (IF NonBlank(fnCall.apiModelId) THEN Str(Trim(fnCall.apiModelId.v)) ELSE codexCliDefaultModelId)
        /\ ModelPassed(fnCall.apiModelId) = fnReturn.value.id
        /\ OptTrim(fnCall.apiModelId) \notin ObjectPrototypeMembers => ResolvedAsStated(fnCall.apiModelId)

\* C29: getModel resolves an absent or blank model id to the default id
\* and the default's descriptor; otherwise to the trimmed id, kept even
\* when it is not in the registry, and to the registry's descriptor of
\* that id when there is one, else the default's; the resolved id is the
\* model passed to the main process.
C29_ModelResolved ==
    GetModelReturned =>
        /\ ResolvedAsStated(fnCall.apiModelId)
        /\ ModelPassed(fnCall.apiModelId) = fnReturn.value.id

\* The types of the typed dialects.
TypedDialects == TextDeltaTypes \cup ReasoningDeltaTypes \cup ToolCallDeltaTypes \cup OutputItemTypes \cup CompletedTypes

\* The chunks returned for the event.
ReturnedChunks == {fnReturn.value[i] : i \in 1..Len(fnReturn.value)}

\* The texts the rules after the typed dialects would take from the event:
\* choices[0].delta.content, item.text, message.content, text.
LaterRuleTexts(event) ==
    {OptGet(OptGet(OptFirst(OptGet(event, "choices")), "delta"), "content"),
     OptGet(OptGet(event, "item"), "text"),
     OptGet(OptGet(event, "message"), "content"),
     OptGet(event, "text")} \ {Undef}

\* The delta of the event is a string with something in it.
HasDelta(event) == IsString(OptGet(event, "delta")) /\ OptGet(event, "delta").v # <<>>

\* C30: an event of a typed dialect is handled by the rule of its dialect
\* alone and never by a later rule (legacy choices delta, item / message /
\* text fallbacks, trailing usage extraction), even when its rule yields
\* nothing: a text or reasoning delta yields the chunk of its delta and
\* nothing when the delta is empty, a tool-call delta yields its partial
\* tool call, an output item yields only chunks of its typed item, and a
\* completed event yields only usage.
C30_FirstRuleWins ==
    EventReturned =>
        LET event == fnCall.event
            type == OptGet(event, "type")
        IN /\ type \in TextDeltaTypes =>
                fnReturn.value = IF HasDelta(event) THEN <<TextChunk(OptGet(event, "delta"))>> ELSE <<>>
           /\ type \in ReasoningDeltaTypes =>
                fnReturn.value = IF HasDelta(event) THEN <<ReasoningChunk(OptGet(event, "delta"))>> ELSE <<>>
           /\ type \in ToolCallDeltaTypes =>
                Len(fnReturn.value) = 1 /\ fnReturn.value[1].type = "tool_call_partial"
           /\ type \in OutputItemTypes =>
                /\ \A c \in ReturnedChunks : c.type \in {"text", "reasoning"}
                /\ OptGet(OptGet(event, "item"), "type") \notin {S1("text"), S1("reasoning"), S1("message")} => fnReturn.value = <<>>
                /\ OptGet(OptGet(event, "item"), "type") = S1("message") =>
                        \A c \in ReturnedChunks : c.text \notin LaterRuleTexts(event)
           /\ type \in CompletedTypes =>
                /\ \A c \in ReturnedChunks : c.type = "usage"
                /\ Nullish(UsageOfEvent(event)) => fnReturn.value = <<>>

\* A text or reasoning delta event with an empty delta, a text, a legacy
\* choices delta, a message content, an item text and a usage has yielded
\* nothing.
C30_Witness ==
    /\ EventReturned
    /\ OptGet(fnCall.event, "type") \in TextDeltaTypes \cup ReasoningDeltaTypes
    /\ OptGet(fnCall.event, "delta") = Str(<<>>)
    /\ Cardinality(LaterRuleTexts(fnCall.event)) = 4
    /\ IsObject(OptGet(fnCall.event, "usage"))
    /\ fnReturn.value = <<>>

\* A string with something in it.
NonEmpty(x) == IsString(x) /\ x.v # <<>>

\* The first of the named fields of the event that is non-empty, and
\* undefined when none is.
RECURSIVE FirstNonEmpty(_, _)
FirstNonEmpty(event, names) ==
    IF names = <<>> THEN Undef
    ELSE IF NonEmpty(Get(event, Head(names))) THEN Get(event, Head(names))
    ELSE FirstNonEmpty(event, Tail(names))

\* processEvent has returned from a tool-call-argument delta event.
ToolCallReturned == EventReturned /\ OptGet(fnCall.event, "type") \in ToolCallDeltaTypes

\* C31: a tool-call-argument delta event yields exactly one partial tool
\* call whose id is the first non-empty of call_id, tool_call_id, id, whose
\* name is the first non-empty of name, function_name, whose arguments are
\* the first non-empty of delta, arguments, and whose index is the index of
\* the event, or 0 when the event has none.
C31_ToolCallPartial ==
    ToolCallReturned =>
        /\ Len(fnReturn.value) = 1
        /\ fnReturn.value[1].type = "tool_call_partial"
        /\ fnReturn.value[1].id = FirstNonEmpty(fnCall.event, <<"call_id", "tool_call_id", "id">>)
        /\ fnReturn.value[1].name = FirstNonEmpty(fnCall.event, <<"name", "function_name">>)
        /\ fnReturn.value[1].arguments = FirstNonEmpty(fnCall.event, <<"delta", "arguments">>)
        /\ fnReturn.value[1].index = (IF Nullish(Get(fnCall.event, "index")) THEN Num(0) ELSE Get(fnCall.event, "index"))

\* A tool-call delta whose call_id is empty, whose tool_call_id and id are
\* both set, whose name and delta are empty with function_name and
\* arguments set, and that has no index, has yielded its partial tool call.
C31_Witness ==
    /\ ToolCallReturned
    /\ Get(fnCall.event, "call_id") = Str(<<>>)
    /\ NonEmpty(Get(fnCall.event, "tool_call_id"))
    /\ NonEmpty(Get(fnCall.event, "id"))
    /\ Get(fnCall.event, "name") = Str(<<>>)
    /\ Get(fnCall.event, "delta") = Str(<<>>)
    /\ Get(fnCall.event, "index") = Undef
    /\ Len(fnReturn.value) = 1
    /\ fnReturn.value[1].id = Get(fnCall.event, "tool_call_id")
    /\ fnReturn.value[1].name = S1("run_function")
    /\ fnReturn.value[1].arguments = Get(fnCall.event, "arguments")
    /\ fnReturn.value[1].index = Num(0)

\* parseAuthStatus has returned for an output that is a JSON object.
ParseReturned == fnCall.fn = "parseAuthStatus" /\ fnReturn # NotReturned /\ IsObject(JsonParse(fnCall.output).value)

\* The object the status command printed.
StatusObject == JsonParse(fnCall.output).value

AuthKeys == <<"authenticated", "logged_in", "loggedIn">>

\* The lowercase form of the status contains the pattern.
StatusSays(pattern) == IsString(Get(StatusObject, "status")) /\ Includes(ToLowerCase(Get(StatusObject, "status").v), pattern)

\* What the status string of the object says, as C32 states it.
AsStatusSays ==
    /\ (StatusSays(<<"un", "auth">>) \/ StatusSays(<<"signed-out">>)) => fnReturn.value.authenticated = Bool(FALSE)
    /\ (~StatusSays(<<"un", "auth">>) /\ ~StatusSays(<<"signed-out">>) /\ (StatusSays(<<"auth">>) \/ StatusSays(<<"signed-in">>)))
            => fnReturn.value.authenticated = Bool(TRUE)

\* What holds of C32: the first of the three keys that is neither
\* undefined nor null decides when it is a boolean, and the status string
\* decides otherwise.
FirstKeyDecides ==
    ParseReturned =>
        IF IsBoolean(FirstField(StatusObject, AuthKeys))
        THEN fnReturn.value.authenticated = FirstField(StatusObject, AuthKeys)
        ELSE AsStatusSays

\* C32: for a status output that is a JSON object, a boolean under one of
\* the keys authenticated, logged_in, loggedIn is the reported value;
\* otherwise a status string whose lowercase form contains "unauth" or
\* "signed-out" reports false, else one that contains "auth" or
\* "signed-in" reports true.
C32_StatusParsed ==
    ParseReturned =>
        IF \E i \in 1..3 : IsBoolean(Get(StatusObject, AuthKeys[i]))
        THEN \E i \in 1..3 : IsBoolean(Get(StatusObject, AuthKeys[i])) /\ fnReturn.value.authenticated = Get(StatusObject, AuthKeys[i])
        ELSE AsStatusSays

\* createMessage has raised the error of the event its runner handed it.
EventErrorRaised == yielded # <<>> /\ hOutcome.k = "raised" /\ hOutcome # Raised(CallerError)

\* The message C33 states for an error event: the error field when it is a
\* string, else the message of the error object, else the top-level message
\* when it is a string, else the generic text.
MessageAsStated(event) ==
    LET error == Get(event, "error")
    IN IF IsString(error) THEN error.v
       ELSE IF IsObject(error) /\ Truthy(Get(error, "message")) THEN ToStr(Get(error, "message"))
       ELSE IF NonEmpty(Get(event, "message")) THEN Get(event, "message").v
       ELSE GenericErrorText

\* What holds of C33: the raised error carries the stated message and no
\* chunk was yielded, for every event whose top-level message is absent or
\* a string.
MessageOfStringMessages ==
    (EventErrorRaised /\ (Get(yielded[Len(yielded)], "message") = Undef \/ IsString(Get(yielded[Len(yielded)], "message"))))
        => (hOutcome = Raised(NewError(MessageAsStated(yielded[Len(yielded)]))) /\ chunks = <<>>)

\* The event {type: "response.error", error: {message: "Bad request"}}
\* raised with the message "Bad request" and no chunk was yielded.
BadRequestRaised ==
    /\ yielded = <<EvError>>
    /\ hOutcome = Raised(NewError(<<"Bad request">>))
    /\ chunks = <<>>

\* C33: the error raised for an error event carries the error field when
\* it is a string, else the message of the error object, else the
\* top-level string message of the event, else 'Codex CLI returned an
\* error.', and no chunk is yielded for the event.
C33_ErrorMessage ==
    EventErrorRaised => (hOutcome = Raised(NewError(MessageAsStated(yielded[Len(yielded)]))) /\ chunks = <<>>)

\* The flat input total of a usage object: input_tokens, else
\* prompt_tokens, else 0.
FlatInput(usage) == FirstField(usage, <<"input_tokens", "prompt_tokens">>)

\* One of the two detail sub-fields of the usage object is positive.
DetailsPositive(usage) == DetailOf(usage, "cached_tokens").v > 0 \/ DetailOf(usage, "cache_miss_tokens").v > 0

\* C34: the input tokens of the usage chunk are input_tokens, else
\* prompt_tokens, else 0; when that is 0 and the cached or the cache-miss
\* detail is positive they are cached + cache-miss; a flat total that is
\* not 0 is never replaced by the sum.
C34_InputTokens ==
    UsageChunkReturned =>
        LET usage == UsageOfEvent(fnCall.event)
        IN /\ FlatInput(usage) # Num(0) => fnReturn.value[1].inputTokens = FlatInput(usage)
           /\ (FlatInput(usage) = Num(0) /\ DetailsPositive(usage)) =>
                fnReturn.value[1].inputTokens = Num(DetailOf(usage, "cached_tokens").v + DetailOf(usage, "cache_miss_tokens").v)
           /\ (FlatInput(usage) = Num(0) /\ ~DetailsPositive(usage)) => fnReturn.value[1].inputTokens = Num(0)

\* A usage with a flat total of 10 and positive details has kept the 10.
C34_Witness ==
    /\ UsageChunkReturned
    /\ Get(UsageOfEvent(fnCall.event), "input_tokens") = Num(10)
    /\ DetailsPositive(UsageOfEvent(fnCall.event))
    /\ fnReturn.value[1].inputTokens = Num(10)

\* The configuration keeps its API key from the subprocesses: the mode is
\* interactive ("chatgpt" or unset), or the key is empty.
KeyWithheld(opts) == authModeOf(opts) = S1("chatgpt") \/ ~Truthy(opts.codexCliApiKey)

\* The invocation of the subprocess of that kind, before it has ended,
\* under a configuration.
InvocationUnder(cmd, opts) ==
    CASE cmd = "status" -> StatusCall(opts)
      [] cmd = "fallback" -> FallbackCall(opts)
      [] cmd = "login" -> LoginCall(opts)
      [] cmd = "exec" -> ExecCall(opts)

\* C35: in interactive mode whatever the configured API key, and in
\* API-key mode with an empty key, the env override of ensureCodexLogin
\* and of the main process is undefined, every subprocess runs in the
\* inherited environment, and each invocation is the one the same
\* configuration with any other key (unless that makes the mode API-key
\* with a non-empty key) produces: the configured key reaches no
\* subprocess.
C35_KeyWithheld ==
    KeyWithheld(options) =>
        /\ envOf(options) = Undef
        /\ \A i \in 1..Len(calls) :
            /\ calls[i].env = ProcessEnv
            /\ Truthy(options.codexCliApiKey) => \A n \in DOMAIN calls[i].env : calls[i].env[n] # options.codexCliApiKey
            /\ \A k \in ConfiguredKeys :
                 LET opts == [options EXCEPT !.codexCliApiKey = k]
                 IN KeyWithheld(opts) => [calls[i] EXCEPT !.result = Pending] = InvocationUnder(calls[i].cmd, opts)

\* A handler in ChatGPT mode with a stored key has run the status probe,
\* the login and the main process.
C35_Witness ==
    /\ options.codexCliAuthMode = S1("chatgpt")
    /\ Truthy(options.codexCliApiKey)
    /\ \E i \in 1..Len(calls) : calls[i].cmd = "status"
    /\ \E i \in 1..Len(calls) : calls[i].cmd = "login"
    /\ \E i \in 1..Len(calls) : calls[i].cmd = "exec"

=============================================================================
